---------------------------- MODULE Spec2Model ----------------------------
(***************************************************************************)
(* DentalBook: a dental-clinic booking application (React client over a    *)
(* hosted document store).  The module models                              *)
(*   - the document store (patients, appointments, blockedDates,           *)
(*     emergencyReschedules) behind src/services/firestore.ts,             *)
(*   - the patient booking form (components/patient/BookingForm.tsx),      *)
(*   - the staff calendar page, appointment list page and their modals     *)
(*     (components/staff/*.tsx),                                           *)
(* and checks the properties the design document states about them.        *)
(*                                                                         *)
(* Representation.                                                         *)
(*   - A text the code inspects character by character (an email, a phone  *)
(*     number) is a sequence of one-character strings.                     *)
(*   - A calendar date string "YYYY-MM-DD" is the number of that day       *)
(*     counted from 2025-01-01 (day 0); the empty date '' is NoDate.       *)
(*   - A JavaScript Date is an instant: whole hours since                  *)
(*     2025-01-01T00:00Z.  The browser's time zone is part of the state.   *)
(*   - A document id is the document's position in its collection.         *)
(***************************************************************************)
EXTENDS Integers, Sequences, FiniteSets, TLC

VARIABLES
    zone,            \* the browser's time zone (environment of every Date call)
    patients,        \* store: collection 'patients'
    appointments,    \* store: collection 'appointments'
    blockedDates,    \* store: collection 'blockedDates' (one batch per document)
    reschedules,     \* store: collection 'emergencyReschedules'
    view,            \* App.currentView
    appBlocked,      \* App.blockedDates, handed to the booking form as a prop
    step,            \* BookingForm.step
    contactInfo,     \* BookingForm.contactInfo
    showPhoneError,  \* BookingForm.showPhoneError
    showEmailError,  \* BookingForm.showEmailError
    roster,          \* BookingForm.patients
    details,         \* BookingForm.appointments
    loading,         \* BookingForm.loading
    pending,         \* the backend call of handleSubmit that has not settled yet
    blockedLoad,     \* App's loadBlockedDates effect: "outstanding", "loaded", "failed"
    alert,           \* the text of the last blocking dialog / inline error shown
    page,            \* StaffDashboard.currentPage
    calAppointments, \* CalendarPage.appointments (the page's snapshot)
    calPatients,     \* CalendarPage.patients
    calBlocked,      \* CalendarPage.blockedDates
    listAppointments,\* AppointmentListPage.appointments
    listPatients,    \* AppointmentListPage.patients
    listError,       \* AppointmentListPage.error
    reportAppointments, \* ReportsPage.appointments
    reportStartDate, \* ReportsPage.startDate
    reportEndDate,   \* ReportsPage.endDate
    pendingAppointments, \* AppointmentRequestsPage.pendingAppointments
    requestsInFlight,    \* approve / reject requests of the page that have not settled
    currentDate,     \* CalendarPage.currentDate (a Date: the month on display)
    authUser,        \* the identity provider's auth.currentUser
    user,            \* useAuth().user in App: the provider's last report
    signOutPending,  \* a signOut(auth) of handleLogout that has not settled
    lastOp           \* what the last handler did (its inputs and its outcome)

storeVars == <<patients, appointments, blockedDates, reschedules>>
formVars  == <<view, appBlocked, step, contactInfo, showPhoneError,
               showEmailError, roster, details, loading, pending, blockedLoad>>
reportVars == <<reportAppointments, reportStartDate, reportEndDate>>
requestVars == <<pendingAppointments, requestsInFlight>>
calendarVars == <<currentDate>>
authVars == <<authUser, user, signOutPending>>
otherPageVars == <<reportVars, requestVars, calendarVars, authVars>>
staffVars == <<page, calAppointments, calPatients, calBlocked, listAppointments,
               listPatients, listError, otherPageVars>>
vars      == <<zone, storeVars, formVars, staffVars, alert, lastOp>>

---------------------------------------------------------------------------
(* Bounds of the model.                                                    *)

MaxAppointments == 3   \* documents in 'appointments'
MaxPatients     == 3   \* documents in 'patients'
MaxRoster       == 2   \* roster entries of one booking form
MaxBatches      == 2   \* documents in 'blockedDates'
MaxOccurrences  == 3   \* occurrences of a recurring request
MaxStaffAppointments == 2   \* documents in 'appointments' in the staff specification
MaxRecurringAppointments == 3   \* the same where recurring requests are made
MaxBatchDates   == 2   \* dates in one blocked-date batch
MaxEmergencies  == 1   \* emergency reschedules confirmed in the modal

---------------------------------------------------------------------------
(* Calendar arithmetic of the JavaScript Date object.                      *)

\* The lengths of the months of 2025 and 2026 (neither is a leap year).
MonthLengths ==
    <<31, 28, 31, 30, 31, 30, 31, 31, 30, 31, 30, 31,
      31, 28, 31, 30, 31, 30, 31, 31, 30, 31, 30, 31>>

\* Days from 2025-01-01 to the first of month m (m = months since Jan 2025;
\* m = -1 is December 2024, whose days have negative numbers).
RECURSIVE DaysBeforeMonth(_)
DaysBeforeMonth(m) ==
    IF m = 0 THEN 0
    ELSE IF m < 0 THEN DaysBeforeMonth(m + 1) - 31      \* December 2024
    ELSE DaysBeforeMonth(m - 1) + MonthLengths[m]

\* ECMAScript MakeDay: a day of the month past the month's end runs on into
\* the following month (Jan 31 + 1 month = "Feb 31" = Mar 3).
MakeDay(m, dom) == DaysBeforeMonth(m) + dom - 1

\* The date string YYYY-MM-DD for month mm (1..12) of 2025 and day dd.
Day(mm, dd) == MakeDay(mm - 1, dd)

MonthFromDay(d) ==
    CHOOSE m \in (0 - 1)..23 : DaysBeforeMonth(m) <= d /\ d < DaysBeforeMonth(m + 1)

DateFromDay(d) == d - DaysBeforeMonth(MonthFromDay(d)) + 1

\* Time zones.  std: hours ahead of UTC in winter; when dst, clocks go forward
\* one hour at the instant dstAt.
Manila  == [name |-> "Asia/Manila", std |-> 8, dst |-> FALSE, dstAt |-> 0]
NewYork == [name |-> "America/New_York", std |-> 0 - 5, dst |-> TRUE,
            dstAt |-> Day(3, 9) * 24 + 7]      \* 2025-03-09T07:00Z
Zones   == {Manila, NewYork}

Offset(z, t) == IF z.dst /\ t >= z.dstAt THEN z.std + 1 ELSE z.std

\* ECMAScript LocalTime(t) and UTC(t): a local time that the clock skipped is
\* read with the offset before the transition.
LocalTime(z, t) == t + Offset(z, t)
UTC(z, lt) ==
    IF z.dst /\ lt - (z.std + 1) >= z.dstAt THEN lt - (z.std + 1) ELSE lt - z.std

\* new Date("YYYY-MM-DD"): the date-only form is midnight UTC.
DateParse(d) == d * 24

\* new Date(year, monthIndex, day): midnight local time.
DateLocal(z, m, dom) == UTC(z, MakeDay(m, dom) * 24)

\* d.toISOString().split('T')[0]: the UTC calendar day.
ToISODate(t) == t \div 24

\* `${d.getFullYear()}-${pad(d.getMonth() + 1)}-${pad(d.getDate())}`: the
\* local calendar day.
FormatLocalDate(z, t) == LocalTime(z, t) \div 24

GetMonth(z, t) == MonthFromDay(LocalTime(z, t) \div 24)
GetDate(z, t)  == DateFromDay(LocalTime(z, t) \div 24)

\* d.setDate(dom) and d.setMonth(m): the local month (day of the month) and the
\* local time of day are kept.
SetDate(z, t, dom) ==
    UTC(z, MakeDay(GetMonth(z, t), dom) * 24 + (LocalTime(z, t) % 24))
SetMonth(z, t, m) ==
    UTC(z, MakeDay(m, GetDate(z, t)) * 24 + (LocalTime(z, t) % 24))

\* The day the clients run (new Date() of the date inputs' min): the first day
\* of the calendar above.
Today == Day(1, 1)

\* The empty id '' and the empty date string ''.
NoId == 1 - 1
NoDate == 0 - 1

\* new Date() when a page is mounted: ten in the morning (UTC) of Today.  A
\* page that is not mounted has no Date.
Now == Today * 24 + 10
NoInstant == 0 - 9999

\* The user object of the staff account, and null.
StaffUser == "staff@dentalbook"
NoUser == "null"

\* date.split('T')[0] of a date string: the date strings of this model carry
\* no time part (no caller produces one), so the part before 'T' is all of it.
DatePart(d) == d

---------------------------------------------------------------------------
(* Texts and the two validators of the booking form.                       *)

Digits  == {"0", "1", "2", "3", "4", "5", "6", "7", "8", "9"}
Letters == {"a", "b", "c", "d", "e", "f", "g", "h", "i", "j", "k", "l", "m",
            "n", "o", "p", "q", "r", "s", "t", "u", "v", "w", "x", "y", "z",
            "A", "B", "C", "D", "E", "F", "G", "H", "I", "J", "K", "L", "M",
            "N", "O", "P", "Q", "R", "S", "T", "U", "V", "W", "X", "Y", "Z"}

IsDigit(c) == c \in Digits

\* value.replace(/\D/g, '')
StripNonDigits(s) == SelectSeq(s, IsDigit)

\* /^[a-zA-Z0-9._%+-]+@(gmail|yahoo|hotmail)\.com$/
EmailLocalChars == Letters \cup Digits \cup {".", "_", "%", "+", "-"}
EmailDomains ==
    { <<"@", "g", "m", "a", "i", "l", ".", "c", "o", "m">>,
      <<"@", "y", "a", "h", "o", "o", ".", "c", "o", "m">>,
      <<"@", "h", "o", "t", "m", "a", "i", "l", ".", "c", "o", "m">> }

EmailRegexTest(s) ==
    \E k \in 1..Len(s) :
        /\ \A i \in 1..k : s[i] \in EmailLocalChars
        /\ SubSeq(s, k + 1, Len(s)) \in EmailDomains

isValidEmail(email) == EmailRegexTest(email)

\* /^09\d{9}$/ : the matcher walks the text from its start: '0', '9', nine
\* digits, and then the end of the text.
RECURSIVE MatchDigits(_, _, _)
MatchDigits(s, from, n) ==
    IF n = 0 THEN from
    ELSE IF from <= Len(s) /\ IsDigit(s[from]) THEN MatchDigits(s, from + 1, n - 1)
    ELSE 0

PhoneRegexTest(s) ==
    /\ Len(s) >= 2
    /\ s[1] = "0"
    /\ s[2] = "9"
    /\ MatchDigits(s, 3, 9) = Len(s) + 1

\* A validator that forgets to remove the formatting first.
isValidPhoneNumber_unstripped(phone) == PhoneRegexTest(phone)

isValidPhoneNumber(phone) == PhoneRegexTest(StripNonDigits(phone))

---------------------------------------------------------------------------
(* Static tables (types.ts).                                               *)

procedureTypes ==
    { [name |-> "Cleaning", price |-> 2500],
      [name |-> "Filling", price |-> 3500],
      [name |-> "Root Canal", price |-> 8000],
      [name |-> "Extraction", price |-> 2000],
      [name |-> "Crown", price |-> 15000],
      [name |-> "Whitening", price |-> 5000],
      [name |-> "Braces Consultation", price |-> 1500],
      [name |-> "Oral Surgery", price |-> 12000] }

timeSlots ==
    <<"9:00 AM", "9:30 AM", "10:00 AM", "10:30 AM", "11:00 AM", "11:30 AM",
      "1:00 PM", "1:30 PM", "2:00 PM", "2:30 PM", "3:00 PM", "3:30 PM",
      "4:00 PM", "4:30 PM">>

AppointmentStatus ==
    {"pending", "scheduled", "completed", "cancelled", "no-show", "rescheduled"}

---------------------------------------------------------------------------
(* The data-access module (services/firestore.ts).  A call either settles  *)
(* with the write applied or throws with nothing written; which of the two *)
(* is the caller's nondeterministic input.                                 *)

\* r with the fields of data written over it ({...r, ...data}).
Merge(r, data) ==
    [f \in DOMAIN r \cup DOMAIN data |-> IF f \in DOMAIN data THEN data[f] ELSE r[f]]

\* addPatient: the new document, and the id it returns.
addPatient(coll, patientData) == Append(coll, patientData)
NewId(coll) == Len(coll) + 1

\* addAppointment reads appointment.date.split('T'): without a date field it
\* throws a TypeError before anything is written.
addAppointmentThrows(appointment) == "date" \notin DOMAIN appointment
addAppointment(coll, appointment) ==
    Append(coll, Merge(appointment, [date |-> DatePart(appointment.date)]))

\* updateAppointment: the given fields are written over the stored document;
\* a date among them is cut to its date part.
updateAppointment(coll, id, data) ==
    [coll EXCEPT ![id] =
        Merge(@, IF "date" \in DOMAIN data /\ data.date # NoDate
                 THEN Merge(data, [date |-> DatePart(data.date)])
                 ELSE data)]

\* The documents of a collection with their ids.
WithIds(coll) == [i \in 1..Len(coll) |-> Merge(coll[i], [id |-> i])]

\* orderBy('date', 'asc'): documents of one date stay in id order.
RECURSIVE SortByDate(_)
SortByDate(s) ==
    IF s = <<>> THEN <<>>
    ELSE LET front == SortByDate(SubSeq(s, 1, Len(s) - 1))
             x     == s[Len(s)]
             k     == Cardinality({i \in 1..Len(front) : front[i].date <= x.date})
         IN SubSeq(front, 1, k) \o <<x>> \o SubSeq(front, k + 1, Len(front))

\* getAppointments: every document, ordered by date, with
\* procedurePrice: data.procedurePrice ?? data.price ?? 0 and the date cut to
\* its date part.
AppointmentView(doc) ==
    Merge(doc,
          [procedurePrice |->
               IF "procedurePrice" \in DOMAIN doc THEN doc.procedurePrice
               ELSE IF "price" \in DOMAIN doc THEN doc.price ELSE 0,
           date |-> DatePart(doc.date)])

getAppointments(coll) ==
    LET sorted == SortByDate(WithIds(coll))
    IN [i \in 1..Len(sorted) |-> AppointmentView(sorted[i])]

getPatients(coll) == WithIds(coll)

\* A write of blocked dates that stores nothing: the mutation used to test C25.
addBlockedDates_none(coll, dates) == coll

\* addBlockedDates: one more batch document.
addBlockedDates(coll, dates) == Append(coll, [dates |-> dates])

\* [...new Set(allDates)]: each value once, at its first position.
RECURSIVE Dedupe(_)
Dedupe(s) ==
    IF s = <<>> THEN <<>>
    ELSE LET front == Dedupe(SubSeq(s, 1, Len(s) - 1))
             last  == s[Len(s)]
         IN IF \E i \in 1..Len(front) : front[i] = last
            THEN front ELSE Append(front, last)

RECURSIVE ConcatDates(_)
ConcatDates(coll) ==
    IF coll = <<>> THEN <<>>
    ELSE ConcatDates(SubSeq(coll, 1, Len(coll) - 1)) \o coll[Len(coll)].dates

\* getBlockedDates without the Set: every date as often as it is stored.
getBlockedDates_all(coll, ok) == IF ok THEN ConcatDates(coll) ELSE <<>>

\* getBlockedDates answering a failed read with the dates all the same.
getBlockedDates_cached(coll, ok) == Dedupe(ConcatDates(coll))

\* getBlockedDates: the dates of all batches, duplicates removed; a failed
\* read is caught and answered with the empty list.
getBlockedDates(coll, ok) == IF ok THEN Dedupe(ConcatDates(coll)) ELSE <<>>

\* The sequences over S of length n at most.
BoundedSeq(S, n) == UNION {[1..k -> S] : k \in 0..n}

\* Array.prototype.includes
Includes(s, x) == \E i \in 1..Len(s) : s[i] = x

---------------------------------------------------------------------------
(* The patient booking form (components/patient/BookingForm.tsx) and the   *)
(* part of App.tsx that shows it.                                          *)

BlockedDateMsg == "Sorry but the doctor isnt available to this day please pick another date"
SameSlotMsg    == "Cannot book multiple appointments at the same time slot. Please choose different times."
SubmittedMsg   == "Appointment requests submitted successfully! Please wait for staff approval."
SubmitErrorMsg == "Error submitting appointment requests. Please try again."
PhoneMsg       == "Please enter a valid phone number (must start with 09 and be exactly 11 digits)"
NoMsg          == ""

NoCall == [call |-> "none"]

InitialContact == [contactName |-> <<>>, email |-> <<>>, phone |-> <<>>]
InitialPatient == [firstName |-> <<>>, lastName |-> <<>>, age |-> 0, sex |-> "male"]
InitialDetails == [procedureType |-> "", date |-> NoDate, time |-> "", notes |-> <<>>]

\* The state of a freshly mounted form (the useState initial values).
FreshForm ==
    /\ step' = 1
    /\ contactInfo' = InitialContact
    /\ showPhoneError' = FALSE
    /\ showEmailError' = FALSE
    /\ roster' = <<InitialPatient>>
    /\ details' = <<InitialDetails>>
    /\ loading' = FALSE

\* filter((_, i) => i !== index)
RemoveAt(s, index) ==
    [i \in 1..(Len(s) - 1) |-> IF i < index THEN s[i] ELSE s[i + 1]]

IsNameChar(c) == c \in Letters \cup {" "}
Min(a, b) == IF a < b THEN a ELSE b
Max(a, b) == IF a > b THEN a ELSE b

\* updatePatient: names keep letters and spaces only, the age is clamped to
\* 0..100.
updatePatientValue(field, value) ==
    IF field \in {"firstName", "lastName"} THEN SelectSeq(value, IsNameChar)
    ELSE IF field = "age" THEN Min(Max(value, 0), 100)
    ELSE value

getPrice(procedureType) ==
    IF \E p \in procedureTypes : p.name = procedureType
    THEN (CHOOSE p \in procedureTypes : p.name = procedureType).price
    ELSE 0

isDateBlocked(blocked, date) == Includes(blocked, date)

\* A slot check that also looks at the stored appointments.
isTimeSlotTaken_checksStore(appts, date, time, currentIndex) ==
    \/ \E index \in 1..Len(appts) :
          /\ index # currentIndex
          /\ appts[index].date = date
          /\ appts[index].time = time
    \/ \E a \in 1..Len(appointments) :
          /\ appointments[a].status # "cancelled"
          /\ appointments[a].date = date
          /\ appointments[a].time = time

\* isTimeSlotTaken looks at the other entries of the form's own list.
isTimeSlotTaken(appts, date, time, currentIndex) ==
    \E index \in 1..Len(appts) :
        /\ index # currentIndex
        /\ appts[index].date = date
        /\ appts[index].time = time

hasBlockedDate == \E i \in 1..Len(details) : isDateBlocked(appBlocked, details[i].date)

\* A submission without the check for two entries on one slot.
hasDuplicateTime_never == FALSE

hasDuplicateTime ==
    \E index \in 1..Len(details) :
        isTimeSlotTaken(details, details[index].date, details[index].time, index)

\* /^[a-zA-Z\s]+$/
NameRegexTest(s) == Len(s) >= 1 /\ \A i \in 1..Len(s) : IsNameChar(s[i])

isStepValid ==
    CASE step = 1 ->
            /\ contactInfo.contactName # <<>>
            /\ contactInfo.email # <<>>
            /\ contactInfo.phone # <<>>
      [] step = 2 ->
            \A i \in 1..Len(roster) :
                /\ roster[i].firstName # <<>>
                /\ roster[i].lastName # <<>>
                /\ roster[i].age > 0
                /\ roster[i].age <= 100
                /\ NameRegexTest(roster[i].firstName)
                /\ NameRegexTest(roster[i].lastName)
      [] step = 3 ->
            \A i \in 1..Len(details) :
                /\ details[i].procedureType # ""
                /\ details[i].date # NoDate
                /\ details[i].time # ""
                /\ ~isDateBlocked(appBlocked, details[i].date)
      [] OTHER -> FALSE

\* The user acts on the form while it is shown and no submission is running.
Interactive == view = "booking" /\ ~loading

FormFrame ==
    UNCHANGED <<zone, storeVars, staffVars, lastOp, view, appBlocked, pending, blockedLoad>>

\* Selecting the patient role mounts a fresh form.
OpenBooking ==
    /\ view = "selection"
    /\ pending = NoCall
    /\ view' = "booking"
    /\ FreshForm
    /\ alert' = NoMsg
    /\ UNCHANGED <<zone, storeVars, staffVars, lastOp, appBlocked, pending, blockedLoad>>

\* The X button: onClose unmounts the form and its state is gone.
CloseBooking ==
    /\ Interactive
    /\ view' = "selection"
    /\ FreshForm
    /\ alert' = NoMsg
    /\ UNCHANGED <<zone, storeVars, staffVars, lastOp, appBlocked, pending, blockedLoad>>

SetContactName(Values) ==
    /\ Interactive /\ step = 1
    /\ \E v \in Values : contactInfo' = [contactInfo EXCEPT !.contactName = v]
    /\ alert' = NoMsg
    /\ UNCHANGED <<step, showPhoneError, showEmailError, roster, details, loading>>
    /\ FormFrame

\* handleEmailChange: the error flag, once raised, follows the validity.
SetEmail(Values) ==
    /\ Interactive /\ step = 1
    /\ \E v \in Values :
        /\ contactInfo' = [contactInfo EXCEPT !.email = v]
        /\ showEmailError' = IF showEmailError THEN ~isValidEmail(v) ELSE showEmailError
    /\ alert' = NoMsg
    /\ UNCHANGED <<step, showPhoneError, roster, details, loading>>
    /\ FormFrame

handleEmailBlur ==
    /\ Interactive /\ step = 1
    /\ showEmailError' = TRUE
    /\ alert' = NoMsg
    /\ UNCHANGED <<step, contactInfo, showPhoneError, roster, details, loading>>
    /\ FormFrame

SetPhone(Values) ==
    /\ Interactive /\ step = 1
    /\ \E v \in Values : contactInfo' = [contactInfo EXCEPT !.phone = v]
    /\ alert' = NoMsg
    /\ UNCHANGED <<step, showPhoneError, showEmailError, roster, details, loading>>
    /\ FormFrame

handlePhoneBlur ==
    /\ Interactive /\ step = 1
    /\ showPhoneError' = IF contactInfo.phone # <<>>
                         THEN ~isValidPhoneNumber(contactInfo.phone)
                         ELSE showPhoneError
    /\ alert' = NoMsg
    /\ UNCHANGED <<step, contactInfo, showEmailError, roster, details, loading>>
    /\ FormFrame

addPatientForm ==
    /\ Interactive /\ step = 2
    /\ Len(roster) < MaxRoster
    /\ roster' = Append(roster, InitialPatient)
    /\ details' = Append(details, InitialDetails)
    /\ alert' = NoMsg
    /\ UNCHANGED <<step, contactInfo, showPhoneError, showEmailError, loading>>
    /\ FormFrame

\* The remove button is shown for every entry when there are two or more.
removePatientForm ==
    /\ Interactive /\ step = 2
    /\ Len(roster) > 1
    /\ \E index \in 1..Len(roster) :
        /\ roster' = RemoveAt(roster, index)
        /\ details' = RemoveAt(details, index)
    /\ alert' = NoMsg
    /\ UNCHANGED <<step, contactInfo, showPhoneError, showEmailError, loading>>
    /\ FormFrame

\* The user fills in one roster entry: updatePatient for each of its fields.
FillPatient(Values) ==
    /\ Interactive /\ step = 2
    /\ \E index \in 1..Len(roster), v \in Values :
        roster' = [roster EXCEPT ![index] =
            [firstName |-> updatePatientValue("firstName", v.firstName),
             lastName  |-> updatePatientValue("lastName", v.lastName),
             age       |-> updatePatientValue("age", v.age),
             sex       |-> updatePatientValue("sex", v.sex)]]
    /\ alert' = NoMsg
    /\ UNCHANGED <<step, contactInfo, showPhoneError, showEmailError, details, loading>>
    /\ FormFrame

\* The user fills in one appointment entry: updateAppointment for its fields.
FillDetails(Values) ==
    /\ Interactive /\ step = 3
    /\ \E index \in 1..Len(details), v \in Values :
        details' = [details EXCEPT ![index] = v]
    /\ alert' = NoMsg
    /\ UNCHANGED <<step, contactInfo, showPhoneError, showEmailError, roster, loading>>
    /\ FormFrame

\* The Next button (shown at steps 1 and 2, disabled unless isStepValid; a
\* running submission does not disable it).
handleNextStep ==
    /\ view = "booking" /\ step < 3
    /\ isStepValid
    /\ IF step = 1
       THEN IF ~isValidPhoneNumber(contactInfo.phone)
            THEN /\ showPhoneError' = TRUE
                 /\ alert' = PhoneMsg
                 /\ step' = step
            ELSE /\ step' = step + 1
                 /\ alert' = NoMsg
                 /\ UNCHANGED showPhoneError
       ELSE IF hasBlockedDate
            THEN /\ alert' = BlockedDateMsg
                 /\ UNCHANGED <<step, showPhoneError>>
            ELSE /\ step' = step + 1
                 /\ alert' = NoMsg
                 /\ UNCHANGED showPhoneError
    /\ UNCHANGED <<contactInfo, showEmailError, roster, details, loading>>
    /\ FormFrame

\* A Previous button that goes back to the first step.
PreviousStep_toStart ==
    /\ view = "booking" /\ step # 1
    /\ step' = 1
    /\ alert' = NoMsg
    /\ UNCHANGED <<contactInfo, showPhoneError, showEmailError, roster, details, loading>>
    /\ FormFrame

\* The Previous button (disabled at step 1 only, also while a submission
\* runs).
PreviousStep ==
    /\ view = "booking" /\ step # 1
    /\ step' = step - 1
    /\ alert' = NoMsg
    /\ UNCHANGED <<contactInfo, showPhoneError, showEmailError, roster, details, loading>>
    /\ FormFrame

\* formatDate of handleSubmit: the date string is taken apart, rebuilt as a
\* local Date and formatted from its local fields.
formatDate(z, dateStr) ==
    FormatLocalDate(z, DateLocal(z, MonthFromDay(dateStr), DateFromDay(dateStr)))

patientData(i) ==
    [firstName   |-> roster[i].firstName,
     lastName    |-> roster[i].lastName,
     age         |-> roster[i].age,
     sex         |-> roster[i].sex,
     contactName |-> contactInfo.contactName,
     email       |-> contactInfo.email,
     phone       |-> contactInfo.phone,
     name        |-> roster[i].firstName \o <<" ">> \o roster[i].lastName,
     status      |-> "active"]

\* The appointment data with the roster position in place of the id that
\* addPatient returned.
appointmentData_rosterIndex(i, patientId) ==
    [patientId      |-> i,
     patientName    |-> roster[i].firstName \o <<" ">> \o roster[i].lastName,
     patientPhone   |-> contactInfo.phone,
     procedureType  |-> details[i].procedureType,
     procedurePrice |-> getPrice(details[i].procedureType),
     date           |-> formatDate(zone, details[i].date),
     time           |-> details[i].time,
     price          |-> getPrice(details[i].procedureType),
     notes          |-> details[i].notes,
     status         |-> "pending"]

appointmentData(i, patientId) ==
    [patientId      |-> patientId,
     patientName    |-> roster[i].firstName \o <<" ">> \o roster[i].lastName,
     patientPhone   |-> contactInfo.phone,
     procedureType  |-> details[i].procedureType,
     procedurePrice |-> getPrice(details[i].procedureType),
     date           |-> formatDate(zone, details[i].date),
     time           |-> details[i].time,
     price          |-> getPrice(details[i].procedureType),
     notes          |-> details[i].notes,
     status         |-> "pending"]

\* handleSubmit up to its first await: the two checks, then addPatient for the
\* first roster entry is issued.
handleSubmit ==
    /\ Interactive /\ step = 3
    /\ isStepValid
    /\ Len(patients) + Len(roster) <= MaxPatients
    /\ Len(appointments) + Len(roster) <= MaxAppointments
    /\ IF hasBlockedDate
       THEN /\ alert' = BlockedDateMsg
            /\ UNCHANGED <<loading, pending>>
       ELSE IF hasDuplicateTime
       THEN /\ alert' = SameSlotMsg
            /\ UNCHANGED <<loading, pending>>
       ELSE /\ loading' = TRUE
            /\ pending' = [call |-> "addPatient", i |-> 1]
            /\ alert' = NoMsg
    /\ UNCHANGED <<step, contactInfo, showPhoneError, showEmailError, roster, details>>
    /\ UNCHANGED <<zone, storeVars, staffVars, lastOp, view, appBlocked, blockedLoad>>

\* A failure path without the finally block: the loading flag stays set.
SubmitFails_noFinally ==
    /\ alert' = SubmitErrorMsg
    /\ loading' = loading
    /\ pending' = NoCall
    /\ UNCHANGED <<view, step, contactInfo, showPhoneError, showEmailError, roster, details>>

\* catch and finally of handleSubmit.
SubmitFails ==
    /\ alert' = SubmitErrorMsg
    /\ loading' = FALSE
    /\ pending' = NoCall
    /\ UNCHANGED <<view, step, contactInfo, showPhoneError, showEmailError, roster, details>>

\* await addPatient(patientData) settles.
AddPatientSettles ==
    /\ pending.call = "addPatient"
    /\ \E ok \in BOOLEAN :
        IF ok
        THEN /\ patients' = addPatient(patients, patientData(pending.i))
             /\ pending' = [call |-> "addAppointment", i |-> pending.i,
                            patientId |-> NewId(patients)]
             /\ alert' = NoMsg
             /\ UNCHANGED <<view, step, contactInfo, showPhoneError, showEmailError,
                            roster, details, loading>>
        ELSE /\ SubmitFails
             /\ UNCHANGED patients
    /\ UNCHANGED <<zone, appointments, blockedDates, reschedules, staffVars, lastOp, appBlocked,
                   blockedLoad>>

\* await addAppointment(appointmentData) settles: the loop goes on with the
\* next roster entry, or the form reports success and closes.
AddAppointmentSettles ==
    /\ pending.call = "addAppointment"
    /\ \E ok \in BOOLEAN :
        IF ok
        THEN /\ appointments' =
                    addAppointment(appointments, appointmentData(pending.i, pending.patientId))
             /\ IF pending.i < Len(roster)
                THEN /\ pending' = [call |-> "addPatient", i |-> pending.i + 1]
                     /\ alert' = NoMsg
                     /\ UNCHANGED <<view, step, contactInfo, showPhoneError,
                                    showEmailError, roster, details, loading>>
                ELSE /\ alert' = SubmittedMsg
                     /\ view' = "selection"
                     /\ FreshForm
                     /\ pending' = NoCall
        ELSE /\ SubmitFails
             /\ UNCHANGED appointments
    /\ UNCHANGED <<zone, patients, blockedDates, reschedules, staffVars, lastOp, appBlocked,
                   blockedLoad>>

\* App mounts with an empty blockedDates state; its effect then loads them.
loadBlockedDates ==
    /\ blockedLoad = "outstanding"
    /\ \E ok \in BOOLEAN :
        /\ appBlocked' = getBlockedDates(blockedDates, ok)
        /\ blockedLoad' = IF ok THEN "loaded" ELSE "failed"
    /\ UNCHANGED <<zone, storeVars, staffVars, lastOp, alert, view, step, contactInfo,
                   showPhoneError, showEmailError, roster, details, loading, pending>>

---------------------------------------------------------------------------
(* Inputs of the booking form.                                             *)

NameAna     == <<"A", "n", "a">>
NameCruz    == <<"C", "r", "u", "z">>
GoodEmail   == <<"a", "n", "a", "@", "g", "m", "a", "i", "l", ".", "c", "o", "m">>
BadEmail    == <<"a", "n", "a", "@", "o", "u", "t", "l", "o", "o", "k", ".", "c", "o", "m">>
GoodPhone   == <<"0", "9", "1", "7", "1", "2", "3", "4", "5", "6", "7">>
BadPhone    == <<"+", "6", "3", "9", "1", "7", "1", "2", "3", "4", "5", "6", "7">>

EmailSamples ==
    { <<"a", "n", "a", "@", "g", "m", "a", "i", "l", ".", "c", "o", "m">>,
      <<"a", ".", "b", "+", "c", "@", "y", "a", "h", "o", "o", ".", "c", "o", "m">>,
      <<"a", "n", "a", "@", "h", "o", "t", "m", "a", "i", "l", ".", "c", "o", "m">>,
      <<"a", "n", "a", "@", "o", "u", "t", "l", "o", "o", "k", ".", "c", "o", "m">>,
      <<"a", "n", "a", "@", "g", "m", "a", "i", "l", ".", "c", "o">>,
      <<"@", "g", "m", "a", "i", "l", ".", "c", "o", "m">>,
      <<"a", "n", "a", "@", "g", "m", "a", "i", "l", ".", "c", "o", "m", ".", "p", "h">>,
      <<"a", "n", " ", "a", "@", "g", "m", "a", "i", "l", ".", "c", "o", "m">>,
      <<"a", "n", "a", "g", "m", "a", "i", "l", ".", "c", "o", "m">> }

PhoneSamples ==
    { <<"0", "9", "1", "7", "1", "2", "3", "4", "5", "6", "7">>,
      <<"0", "9", "1", "7", "-", "1", "2", "3", "-", "4", "5", "6", "7">>,
      <<"(", "0", "9", "1", "7", ")", " ", "1", "2", "3", " ", "4", "5", "6", "7">>,
      <<"+", "6", "3", "9", "1", "7", "1", "2", "3", "4", "5", "6", "7">>,
      <<"9", "1", "7", "1", "2", "3", "4", "5", "6", "7">>,
      <<"0", "9", "1", "7", "1", "2", "3", "4", "5", "6", "7", "8">>,
      <<"0", "8", "1", "7", "1", "2", "3", "4", "5", "6", "7">>,
      <<"0", "9", "1", "7", "1", "2", "3", "4", "5", "6">>,
      <<"0", "9", "1", "7", "x">> }

FormDates == {Day(6, 15), Day(6, 16)}
FormTimes == {timeSlots[1], timeSlots[2]}

PatientInputs ==
    { [firstName |-> NameAna, lastName |-> NameCruz, age |-> 30, sex |-> "female"] }

\* What a user may type into a roster entry: digits in a name, an age past 100.
PatientSamples ==
    PatientInputs \cup
    { [firstName |-> <<"J", "0">>, lastName |-> <<"4", "2">>, age |-> 130, sex |-> "male"] }

StaffDates == {Day(1, 6), Day(1, 7)}
StaffTimes == {timeSlots[1], timeSlots[2]}
EditStatuses == {"scheduled", "cancelled", "completed"}
EmergencyDates == {Day(3, 8), Day(3, 9), Day(3, 10)}
EmergencyMessages == { <<"Dentist", " ", "unavailable">>, <<" ", "Storm", " ">>, <<" ">> }
EmergencyStatuses == {"scheduled", "completed", "cancelled"}

DetailInputs ==
    { [procedureType |-> "Cleaning", date |-> d, time |-> t, notes |-> <<>>] :
        d \in FormDates, t \in FormTimes }

StaffIdle ==
    /\ page = "calendar"
    /\ calAppointments = <<>>
    /\ calPatients = <<>>
    /\ calBlocked = <<>>
    /\ listAppointments = <<>>
    /\ listPatients = <<>>
    /\ listError = ""
    /\ reportAppointments = <<>>
    /\ reportStartDate = NoDate
    /\ reportEndDate = NoDate
    /\ pendingAppointments = <<>>
    /\ requestsInFlight = <<>>
    /\ currentDate = NoInstant
    /\ authUser = NoUser
    /\ user = NoUser
    /\ signOutPending = FALSE
    /\ lastOp = [op |-> "none"]

\* The browser has loaded the application: the selection page is shown, the
\* store holds one blocked-date batch of an earlier emergency reschedule.
InitForm ==
    /\ zone \in Zones
    /\ patients = <<>>
    /\ appointments = <<>>
    /\ blockedDates = <<[dates |-> <<Day(6, 16)>>]>>
    /\ reschedules = <<>>
    /\ view = "selection"
    /\ appBlocked = <<>>
    /\ blockedLoad = "outstanding"
    /\ step = 1
    /\ contactInfo = InitialContact
    /\ showPhoneError = FALSE
    /\ showEmailError = FALSE
    /\ roster = <<InitialPatient>>
    /\ details = <<InitialDetails>>
    /\ loading = FALSE
    /\ pending = NoCall
    /\ alert = NoMsg
    /\ StaffIdle

\* The booking form with its submission.
NextForm ==
    \/ loadBlockedDates
    \/ OpenBooking
    \/ CloseBooking
    \/ SetContactName({NameAna})
    \/ SetEmail({GoodEmail})
    \/ SetPhone({GoodPhone})
    \/ addPatientForm
    \/ removePatientForm
    \/ FillPatient(PatientInputs)
    \/ FillDetails(DetailInputs)
    \/ handleNextStep
    \/ PreviousStep
    \/ handleSubmit
    \/ AddPatientSettles
    \/ AddAppointmentSettles

SpecForm == InitForm /\ [][NextForm]_vars

\* The contact step of the booking form, with what a user may type into it.
NextContact ==
    \/ loadBlockedDates
    \/ OpenBooking
    \/ CloseBooking
    \/ SetContactName({NameAna})
    \/ SetEmail(EmailSamples)
    \/ handleEmailBlur
    \/ SetPhone(PhoneSamples)
    \/ handlePhoneBlur
    \/ FillPatient(PatientSamples)
    \/ handleNextStep
    \/ PreviousStep

SpecContact == InitForm /\ [][NextContact]_vars

---------------------------------------------------------------------------
(* Properties of the booking form.                                         *)

\* A submission that handleSubmit has let through: its first backend call is
\* outstanding and nothing of it has been written yet.
SubmissionAccepted == pending.call = "addPatient" /\ pending.i = 1

\* Entry i of the form asks for the slot of a stored appointment that is not
\* cancelled.
SlotHeldInStore(i) ==
    \E a \in 1..Len(appointments) :
        /\ appointments[a].status # "cancelled"
        /\ appointments[a].date = details[i].date
        /\ appointments[a].time = details[i].time

\* C1: the booking form rejects a submission in which some roster entry has
\* the date and time of a stored appointment that is not cancelled: such a
\* submission is never let through to the backend.
C1_StoredSlotRejected ==
    SubmissionAccepted => ~\E i \in 1..Len(details) : SlotHeldInStore(i)

\* The email is a non-empty local part of permitted characters followed by
\* @gmail.com, @yahoo.com or @hotmail.com.
EmailOnAllowList(email) ==
    \E k \in 1..Len(email) :
        /\ email[k] = "@"
        /\ k > 1
        /\ \A i \in 1..(k - 1) : email[i] \in EmailLocalChars
        /\ SubSeq(email, k, Len(email)) \in EmailDomains

\* C5: the form is past the ContactInfo step only with a contact email at one
\* of the three permitted domains (local-part@gmail.com, @yahoo.com,
\* @hotmail.com).
C5_EmailGate == (view = "booking" /\ step >= 2) => EmailOnAllowList(contactInfo.email)

\* The digits of a text, in order.
RECURSIVE DigitsOf(_)
DigitsOf(s) ==
    IF s = <<>> THEN <<>>
    ELSE IF Head(s) \in Digits THEN <<Head(s)>> \o DigitsOf(Tail(s))
    ELSE DigitsOf(Tail(s))

ElevenDigitsFrom09(phone) ==
    /\ Len(DigitsOf(phone)) = 11
    /\ SubSeq(DigitsOf(phone), 1, 2) = <<"0", "9">>

\* C6: a phone text is accepted exactly when its digits, all other characters
\* removed, are 11 and begin with 09; and the form is past the ContactInfo
\* step only with such a phone text.
C6_PhoneGate ==
    /\ \A p \in PhoneSamples : isValidPhoneNumber(p) <=> ElevenDigitsFrom09(p)
    /\ (view = "booking" /\ step >= 2) => ElevenDigitsFrom09(contactInfo.phone)

\* The form has advanced past ContactInfo with a formatted phone
\* text, 0917-123-4567.
C6_Witness ==
    /\ view = "booking"
    /\ step = 2
    /\ contactInfo.phone =
         <<"0", "9", "1", "7", "-", "1", "2", "3", "-", "4", "5", "6", "7">>

---------------------------------------------------------------------------
(* The staff dashboard: CalendarPage (in AddPatientModal.tsx),             *)
(* AppointmentListPage and the Add / Edit appointment modals.              *)

AddBlockedMsg == "Cannot schedule appointment on blocked date"
AddErrorMsg   == "Error adding appointment"
EditErrorMsg  == "Error updating appointment"
ListLoadError == "Failed to load appointments. Please try again."
ListSaveError == "Failed to save appointment. Please try again."
ListAddError  == "Failed to add appointment. Please try again."

IsNotCompleted(a) == a.status # "completed"

FullName(p) == p.firstName \o <<" ">> \o p.lastName

\* String.prototype.includes
Contains(text, part) ==
    \E i \in 0..(Len(text) - Len(part)) : SubSeq(text, i + 1, i + Len(part)) = part

\* CalendarPage.loadData: the three reads run together; when reading the
\* appointments or the patients fails nothing is set; getBlockedDates answers a
\* failed read with [].  The result is the page's new state.
loadData(okRead, okBlocked, appts, pats, blocked, old) ==
    IF okRead
    THEN [appointments |-> SelectSeq(getAppointments(appts), IsNotCompleted),
          patients     |-> getPatients(pats),
          blockedDates |-> getBlockedDates(blocked, okBlocked)]
    ELSE old

CalState == [appointments |-> calAppointments, patients |-> calPatients,
             blockedDates |-> calBlocked]
CalUnmounted == [appointments |-> <<>>, patients |-> <<>>, blockedDates |-> <<>>]

SetCalState(st) ==
    /\ calAppointments' = st.appointments
    /\ calPatients' = st.patients
    /\ calBlocked' = st.blockedDates

\* AppointmentListPage.fetchAppointments
SetListState(ok, appts, pats) ==
    IF ok
    THEN /\ listAppointments' = getAppointments(appts)
         /\ listPatients' = getPatients(pats)
         /\ UNCHANGED listError
    ELSE /\ listError' = ListLoadError
         /\ UNCHANGED <<listAppointments, listPatients>>

ListUnmounted ==
    /\ listAppointments' = <<>>
    /\ listPatients' = <<>>
    /\ listError' = ""

\* ReportsPage's state before its first load: no appointments, no date filter.
ReportUnmounted ==
    /\ reportAppointments' = <<>>
    /\ reportStartDate' = NoDate
    /\ reportEndDate' = NoDate

\* AppointmentRequestsPage's state before its first load; requests that are
\* under way stay under way when the page is left.
RequestsUnmounted ==
    /\ pendingAppointments' = <<>>
    /\ UNCHANGED requestsInFlight

\* CalendarPage.isDateBlocked: the local calendar day of a Date is looked up.
CalendarIsDateBlocked(z, blocked, date) == Includes(blocked, FormatLocalDate(z, date))

\* App renders the dashboard: currentView === 'staff-dashboard' && user.
DashboardDisplayed == view = "staff-dashboard" /\ user # NoUser

OnDashboard(p) == DashboardDisplayed /\ page = p

\* A signed-in user: App shows the dashboard, which opens on the calendar page.
StaffLogin ==
    /\ view = "selection"
    /\ user = NoUser
    /\ authUser' = StaffUser
    /\ user' = StaffUser
    /\ view' = "staff-dashboard"
    /\ page' = "calendar"
    /\ currentDate' = Now
    /\ \E okRead \in BOOLEAN, okBlocked \in BOOLEAN :
        /\ SetCalState(loadData(okRead, okBlocked, appointments, patients, blockedDates,
                                CalUnmounted))
        /\ lastOp' = [op |-> "login", loaded |-> okRead /\ okBlocked]
    /\ ListUnmounted
    /\ alert' = NoMsg
    /\ UNCHANGED <<zone, reportVars, requestVars, signOutPending, storeVars, appBlocked,
                   step, contactInfo, showPhoneError, showEmailError, roster, details,
                   loading, pending, blockedLoad>>

\* The dashboard menu: the chosen page is mounted and loads its data.
SelectPage ==
    /\ DashboardDisplayed
    /\ \E p \in {"calendar", "appointments"} \ {page} :
        /\ page' = p
        /\ currentDate' = IF p = "calendar" THEN Now ELSE NoInstant
        /\ IF p = "calendar"
           THEN /\ \E okRead \in BOOLEAN, okBlocked \in BOOLEAN :
                     SetCalState(loadData(okRead, okBlocked, appointments, patients,
                                          blockedDates, CalUnmounted))
                /\ ListUnmounted
           ELSE /\ SetCalState(CalUnmounted)
                /\ \E ok \in BOOLEAN :
                     IF ok
                     THEN /\ listAppointments' = getAppointments(appointments)
                          /\ listPatients' = getPatients(patients)
                          /\ listError' = ""
                     ELSE /\ listAppointments' = <<>>
                          /\ listPatients' = <<>>
                          /\ listError' = ListLoadError
    /\ alert' = NoMsg
    /\ ReportUnmounted
    /\ RequestsUnmounted
    /\ lastOp' = [op |-> "page"]
    /\ UNCHANGED <<zone, storeVars, formVars, authVars>>

---------------------------------------------------------------------------
(* AddAppointmentModal.                                                    *)

AddFormData(patient, procedureType, date, time, isRecurring, pattern, occurrences) ==
    [patientId        |-> patient.id,
     patientName      |-> FullName(patient),
     procedureType    |-> procedureType,
     date             |-> date,
     time             |-> time,
     price            |-> getPrice(procedureType),
     notes            |-> <<>>,
     isRecurring      |-> isRecurring,
     recurringPattern |-> pattern,
     occurrences      |-> occurrences]

\* The date of occurrence i (from 0) of a recurring request, as the loop of
\* both handleSubmit and handleAddAppointment computes it.
OccurrenceDate(z, startDate, pattern, i) ==
    CASE pattern = "weekly"    -> SetDate(z, startDate, GetDate(z, startDate) + (i * 7))
      [] pattern = "bi-weekly" -> SetDate(z, startDate, GetDate(z, startDate) + (i * 14))
      [] pattern = "monthly"   -> SetMonth(z, startDate, GetMonth(z, startDate) + i)
      [] OTHER                 -> startDate

\* AddAppointmentModal.handleSubmit past the blocked-date check: what it hands
\* to onSubmit.  A recurring request is handed over as an array of
\* appointments, any other as one object.
AddPayload(z, formData) ==
    IF formData.isRecurring
    THEN [isArray |-> TRUE,
          items   |-> [i \in 1..formData.occurrences |->
                          Merge(formData,
                                [date |-> FormatLocalDate(z,
                                    OccurrenceDate(z, DateParse(formData.date),
                                                   formData.recurringPattern, i - 1))])]]
    ELSE [isArray |-> FALSE,
          fields  |-> Merge(formData,
                            [date |-> FormatLocalDate(z, DateParse(formData.date))])]

\* {...appointmentData}: the own properties of the value; those of an array
\* are its indices "0", "1", ...
Spread(payload) ==
    IF payload.isArray
    THEN [k \in {ToString(i - 1) : i \in 1..Len(payload.items)} |->
              payload.items[CHOOSE i \in 1..Len(payload.items) : ToString(i - 1) = k]]
    ELSE payload.fields

\* appointmentData.isRecurring: an array has no such property.
PayloadIsRecurring(payload) == ~payload.isArray /\ payload.fields.isRecurring

\* CalendarPage.handleAddAppointment: the appointments it asks addAppointment
\* to store, in order.
AddRequests(z, payload) ==
    IF PayloadIsRecurring(payload)
    THEN [i \in 1..payload.fields.occurrences |->
             Merge(payload.fields,
                   [date   |-> ToISODate(OccurrenceDate(z, DateParse(payload.fields.date),
                                             payload.fields.recurringPattern, i - 1)),
                    status |-> "scheduled"])]
    ELSE <<Merge(Spread(payload), [status |-> "scheduled"])>>

\* The store after the first n of the requests have been written.
RECURSIVE AddAll(_, _, _)
AddAll(coll, requests, n) ==
    IF n = 0 THEN coll
    ELSE addAppointment(AddAll(coll, requests, n - 1), requests[n])

\* How many of the requests are written before one throws: all of them when
\* none does.  failAt is the request at which the backend fails (0: none).
Written(requests, failAt) ==
    LET bad == {i \in 1..Len(requests) : addAppointmentThrows(requests[i]) \/ i = failAt}
    IN IF bad = {} THEN Len(requests)
       ELSE (CHOOSE i \in bad : \A j \in bad : i <= j) - 1

\* What is remembered of the last add request: of a recurring one its inputs,
\* the number of stored appointments before it, whether the modal refused it
\* for a blocked date, and the request at which the backend failed (0: none).
AddOp(formData, before, refused, failAt) ==
    IF formData.isRecurring
    THEN [op |-> "add", isRecurring |-> TRUE,
          recurringPattern |-> formData.recurringPattern,
          occurrences |-> formData.occurrences, date |-> formData.date,
          before |-> before, refused |-> refused, failAt |-> failAt]
    ELSE [op |-> "add", isRecurring |-> FALSE]

\* The Add Appointment modal of the calendar page is filled in and submitted.
\* Recurring: the values the recurring box may have; Reloads: the outcomes the
\* reads of the refresh that follows may have; Room: the number of documents
\* the collection may hold.
CalendarAdd(Recurring, Reloads, Room) ==
    /\ OnDashboard("calendar")
    /\ \E patient \in {calPatients[i] : i \in 1..Len(calPatients)},
          date \in StaffDates, time \in StaffTimes, isRecurring \in Recurring,
          pattern \in {"weekly", "bi-weekly", "monthly"},
          occurrences \in 1..MaxOccurrences :
        LET formData == AddFormData(patient, "Cleaning", date, time, isRecurring,
                                    pattern, occurrences)
            payload  == AddPayload(zone, formData)
            requests == AddRequests(zone, payload)
        IN /\ isRecurring \/ (pattern = "weekly" /\ occurrences = 1)
           /\ date >= Today
           /\ Len(appointments) + occurrences <= Room
           /\ IF isDateBlocked(calBlocked, formData.date)
              THEN /\ alert' = AddBlockedMsg
                   /\ lastOp' = AddOp(formData, Len(appointments), TRUE, 0)
                   /\ UNCHANGED <<appointments, calAppointments, calPatients, calBlocked>>
              ELSE \E failAt \in 0..Len(requests) :
                   LET n == Written(requests, failAt)
                   IN /\ appointments' = AddAll(appointments, requests, n)
                      /\ lastOp' = AddOp(formData, Len(appointments), FALSE, failAt)
                      /\ IF n < Len(requests)
                         THEN /\ alert' = AddErrorMsg
                              /\ UNCHANGED <<calAppointments, calPatients, calBlocked>>
                         ELSE /\ alert' = NoMsg
                              /\ \E okRead \in Reloads, okBlocked \in Reloads :
                                   SetCalState(loadData(okRead, okBlocked, appointments',
                                                        patients, blockedDates, CalState))
    /\ UNCHANGED <<zone, otherPageVars, patients, blockedDates, reschedules, formVars, page,
                   listAppointments, listPatients, listError>>

\* The list page's Add Appointment modal: its onSubmit reads the appointments
\* again and refreshes the page; what the modal hands over is not written.
ListAdd(Reloads) ==
    /\ OnDashboard("appointments")
    /\ listError = ""
    /\ \E patient \in {listPatients[i] : i \in 1..Len(listPatients)},
          date \in StaffDates, time \in StaffTimes :
        LET formData == AddFormData(patient, "Cleaning", date, time, FALSE, "weekly", 1)
        IN /\ date >= Today
           /\ IF isDateBlocked(<<>>, formData.date)
              THEN /\ alert' = AddBlockedMsg
                   /\ UNCHANGED <<listAppointments, listPatients, listError>>
              ELSE /\ alert' = NoMsg
                   /\ \E okRead \in Reloads :
                        IF okRead
                        THEN \E ok \in Reloads : SetListState(ok, appointments, patients)
                        ELSE /\ listError' = ListAddError
                             /\ UNCHANGED <<listAppointments, listPatients>>
           /\ lastOp' = [op |-> "listAdd", formData |-> formData]
    /\ UNCHANGED <<zone, otherPageVars, storeVars, formVars, page, calAppointments, calPatients,
                   calBlocked>>

---------------------------------------------------------------------------
(* EditAppointmentModal.                                                   *)

\* appointment?.field || fallback
Field(r, f, fallback) == IF f \in DOMAIN r THEN r[f] ELSE fallback

\* The patient the modal's effect finds for the appointment: by full name,
\* else the first whose first or last name occurs in the appointment's name.
MatchPatient(appointment, pats) ==
    LET exact   == {i \in 1..Len(pats) : FullName(pats[i]) = appointment.patientName}
        partial == {i \in 1..Len(pats) :
                       \/ Contains(appointment.patientName, pats[i].firstName)
                       \/ Contains(appointment.patientName, pats[i].lastName)}
        First(S) == CHOOSE i \in S : \A j \in S : i <= j
    IN IF exact # {} THEN <<pats[First(exact)]>>
       ELSE IF partial # {} THEN <<pats[First(partial)]>>
       ELSE <<>>

\* The modal's form when it opens on an appointment.
EditFormData(appointment, pats) ==
    LET initial == [patientId      |-> NoId,
                    patientName    |-> Field(appointment, "patientName", <<>>),
                    patientPhone   |-> Field(appointment, "patientPhone", <<>>),
                    procedureType  |-> Field(appointment, "procedureType", ""),
                    procedurePrice |-> Field(appointment, "procedurePrice", 0),
                    price          |-> Field(appointment, "price", 0),
                    date           |-> Field(appointment, "date", NoDate),
                    time           |-> Field(appointment, "time", ""),
                    status         |-> Field(appointment, "status", "scheduled"),
                    notes          |-> Field(appointment, "notes", <<>>),
                    isRecurring    |-> Field(appointment, "isRecurring", FALSE),
                    occurrences    |-> Field(appointment, "occurrences", 1)]
        found == MatchPatient(appointment, pats)
    IN IF pats = <<>> THEN initial
       ELSE IF found # <<>>
            THEN Merge(initial, [patientId    |-> found[1].id,
                                 patientName  |-> FullName(found[1]),
                                 patientPhone |-> found[1].phone])
            ELSE Merge(initial, [patientName  |-> Field(appointment, "patientName", <<>>),
                                 patientPhone |-> Field(appointment, "patientPhone", <<>>)])

\* The modal offers no slot check of its own.
isTimeSlotAvailable(date, time) == TRUE

isFormValid(blocked, formData) ==
    /\ formData.patientId # NoId \/ formData.patientName # <<>>
    /\ formData.procedureType # ""
    /\ formData.date # NoDate
    /\ formData.time # ""
    /\ ~isDateBlocked(blocked, formData.date)

\* What EditAppointmentModal.handleSubmit hands to onSubmit.
cleanData(formData) ==
    [f \in {"patientId", "patientName", "patientPhone", "procedureType",
            "procedurePrice", "price", "date", "time", "status", "notes",
            "isRecurring", "occurrences"} |-> formData[f]]

\* The form after the user has set date, time and status.
EditedForm(appointment, pats, date, time, status) ==
    Merge(EditFormData(appointment, pats),
          [date |-> date, time |-> time, status |-> status])

\* The status select: the user picks one of its options or leaves the field as
\* the form was filled from the appointment (the select has no option
\* 'pending', and a form that holds 'pending' keeps it until an option is
\* picked).
StatusChoices(appointment) ==
    EditStatuses \cup {Field(appointment, "status", "scheduled")}

\* An appointment of the calendar page is opened in the modal, changed and saved.
CalendarEdit(Reloads) ==
    /\ OnDashboard("calendar")
    /\ \E k \in 1..Len(calAppointments), date \in StaffDates, time \in StaffTimes :
      \E status \in StatusChoices(calAppointments[k]) :
        LET selectedAppointment == calAppointments[k]
            formData == EditedForm(selectedAppointment, calPatients, date, time, status)
        IN /\ isFormValid(calBlocked, formData)
           /\ status = "completed" \/ date >= Today
           /\ \E ok \in BOOLEAN :
                IF ok
                THEN /\ appointments' = updateAppointment(appointments,
                                            selectedAppointment.id, cleanData(formData))
                     /\ alert' = NoMsg
                     /\ \E okRead \in Reloads, okBlocked \in Reloads :
                          SetCalState(loadData(okRead, okBlocked, appointments',
                                               patients, blockedDates, CalState))
                ELSE /\ alert' = EditErrorMsg
                     /\ UNCHANGED <<appointments, calAppointments, calPatients, calBlocked>>
    /\ lastOp' = [op |-> "edit"]
    /\ UNCHANGED <<zone, otherPageVars, patients, blockedDates, reschedules, formVars, page,
                   listAppointments, listPatients, listError>>

\* The same from the appointment list page, whose modal is given no blocked
\* dates.
ListEdit(Reloads) ==
    /\ OnDashboard("appointments")
    /\ listError = ""
    /\ \E k \in 1..Len(listAppointments), date \in StaffDates, time \in StaffTimes :
      \E status \in StatusChoices(listAppointments[k]) :
        LET selectedAppointment == listAppointments[k]
            formData == EditedForm(selectedAppointment, listPatients, date, time, status)
        IN /\ isFormValid(<<>>, formData)
           /\ status = "completed" \/ date >= Today
           /\ \E ok \in BOOLEAN :
                IF ok
                THEN /\ appointments' = updateAppointment(appointments,
                                            selectedAppointment.id, cleanData(formData))
                     /\ \E okRead \in Reloads :
                          SetListState(okRead, appointments', patients)
                ELSE /\ listError' = ListSaveError
                     /\ UNCHANGED <<appointments, listAppointments, listPatients>>
    /\ alert' = NoMsg
    /\ lastOp' = [op |-> "listEdit"]
    /\ UNCHANGED <<zone, otherPageVars, patients, blockedDates, reschedules, formVars, page,
                   calAppointments, calPatients, calBlocked>>

---------------------------------------------------------------------------
(* The staff specification: one signed-in client working on the calendar   *)
(* and the list page; one patient is on file and 2025-01-06 is blocked.    *)
(* A page's first load may fail; the reload that follows a write succeeds, *)
(* so every operation starts from a freshly loaded snapshot.               *)

PatientOnFile ==
    [firstName |-> NameAna, lastName |-> NameCruz, age |-> 30, sex |-> "female",
     contactName |-> NameAna, email |-> GoodEmail, phone |-> GoodPhone,
     name |-> NameAna \o <<" ">> \o NameCruz, status |-> "active"]

FormIdle ==
    /\ view = "selection"
    /\ appBlocked = <<>>
    /\ blockedLoad = "outstanding"
    /\ step = 1
    /\ contactInfo = InitialContact
    /\ showPhoneError = FALSE
    /\ showEmailError = FALSE
    /\ roster = <<InitialPatient>>
    /\ details = <<InitialDetails>>
    /\ loading = FALSE
    /\ pending = NoCall
    /\ alert = NoMsg

InitStaff ==
    /\ zone \in Zones
    /\ patients = <<PatientOnFile>>
    /\ appointments = <<>>
    /\ blockedDates = <<[dates |-> <<Day(1, 6)>>]>>
    /\ reschedules = <<>>
    /\ FormIdle
    /\ StaffIdle

NextStaff ==
    \/ StaffLogin
    \/ SelectPage
    \/ CalendarAdd({FALSE}, {TRUE}, MaxStaffAppointments)
    \/ CalendarEdit({TRUE})
    \/ ListAdd({TRUE})
    \/ ListEdit({TRUE})

SpecStaff == InitStaff /\ [][NextStaff]_vars

---------------------------------------------------------------------------
(* Recurring requests: the calendar page's Add Appointment modal with the  *)
(* recurring box ticked or not; 2025-01-07 is blocked.                     *)

InitRecurring ==
    /\ zone \in Zones
    /\ patients = <<PatientOnFile>>
    /\ appointments = <<>>
    /\ blockedDates = <<[dates |-> <<Day(1, 7)>>]>>
    /\ reschedules = <<>>
    /\ FormIdle
    /\ StaffIdle

NextRecurring ==
    \/ StaffLogin
    \/ CalendarAdd(BOOLEAN, {TRUE}, MaxRecurringAppointments)

SpecRecurring == InitRecurring /\ [][NextRecurring]_vars

---------------------------------------------------------------------------
(* Properties of the staff pages.                                          *)

\* C2: no two stored appointments that are both not cancelled have the same
\* date and the same time.
C2_UniqueSlots ==
    \A i, j \in 1..Len(appointments) :
        (i < j /\ appointments[i].status # "cancelled"
               /\ appointments[j].status # "cancelled")
        => ~(appointments[i].date = appointments[j].date
             /\ appointments[i].time = appointments[j].time)

\* The union of the stored blocked-date batches.
StoredUnion == getBlockedDates(blockedDates, TRUE)

\* The page the client is on has loaded its data: the calendar page holds the
\* stored union, the list page shows its table.
ClientHasLoaded ==
    /\ view = "staff-dashboard"
    /\ page = "calendar" => calBlocked = StoredUnion
    /\ page = "appointments" => listError = ""

\* C4: a client that has loaded its data never creates an appointment on a
\* date of the stored blocked union, nor moves one onto such a date.
C4_NoAppointmentOnBlockedDate ==
    [][ClientHasLoaded =>
         \A i \in 1..Len(appointments') :
             (i > Len(appointments) \/ appointments'[i].date # appointments[i].date)
             => ~Includes(StoredUnion, appointments'[i].date)]_vars

\* C7: after a recurring weekly (bi-weekly) request of N occurrences from
\* date D that the modal did not refuse and the backend did not fail, exactly
\* N appointments were added, dated D + 7*i (D + 14*i) days for i = 0..N-1.
C7_RecurringStoresOccurrences ==
    (/\ lastOp.op = "add"
     /\ lastOp.isRecurring
     /\ ~lastOp.refused
     /\ lastOp.failAt = 0
     /\ lastOp.recurringPattern \in {"weekly", "bi-weekly"})
    => /\ Len(appointments) = lastOp.before + lastOp.occurrences
       /\ \A i \in 1..lastOp.occurrences :
            appointments[lastOp.before + i].date =
                lastOp.date + (i - 1) * (IF lastOp.recurringPattern = "weekly"
                                         THEN 7 ELSE 14)

---------------------------------------------------------------------------
(* Blocked dates: any stored batches, read by App for the booking form and *)
(* by the calendar page.                                                   *)

BlockDates == {Day(3, 9), Day(6, 15), Day(6, 16)}

Batches == {[dates |-> ds] : ds \in BoundedSeq(BlockDates, MaxBatchDates)}

InitBlocked ==
    /\ zone \in Zones
    /\ patients = <<PatientOnFile>>
    /\ appointments = <<>>
    /\ blockedDates \in BoundedSeq(Batches, MaxBatches)
    /\ reschedules = <<>>
    /\ FormIdle
    /\ StaffIdle

NextBlocked ==
    \/ loadBlockedDates
    \/ OpenBooking
    \/ CloseBooking
    \/ StaffLogin

SpecBlocked == InitBlocked /\ [][NextBlocked]_vars

\* The dates that occur in some stored batch.
UnionSet ==
    UNION {{blockedDates[i].dates[k] : k \in 1..Len(blockedDates[i].dates)} :
              i \in 1..Len(blockedDates)}

\* list holds exactly the dates of the union, each once.
IsUnionOnce(list) ==
    /\ {list[i] : i \in 1..Len(list)} = UnionSet
    /\ Len(list) = Cardinality(UnionSet)

AppLoaded == blockedLoad = "loaded"
CalendarLoaded == view = "staff-dashboard" /\ lastOp.op = "login" /\ lastOp.loaded

\* C3: a client that has loaded the blocked dates holds exactly the union of
\* the stored batches, each date once, and its blocked-date check answers
\* true for the dates of the union and false for every other date; so for
\* the list App hands to the booking form and for the calendar page's.
C3_BlockedUnion ==
    /\ AppLoaded =>
         /\ IsUnionOnce(appBlocked)
         /\ \A d \in BlockDates : isDateBlocked(appBlocked, d) <=> d \in UnionSet
    /\ CalendarLoaded =>
         /\ IsUnionOnce(calBlocked)
         /\ \A d \in BlockDates :
              CalendarIsDateBlocked(zone, calBlocked,
                  DateLocal(zone, MonthFromDay(d), DateFromDay(d))) <=> d \in UnionSet

\* Two batches that share a date have been loaded by App and the form is open.
C3_Witness ==
    /\ AppLoaded
    /\ view = "booking"
    /\ Len(blockedDates) = 2
    /\ blockedDates[1].dates = <<Day(6, 15), Day(6, 16)>>
    /\ blockedDates[2].dates = <<Day(6, 16), Day(3, 9)>>
    /\ appBlocked = <<Day(6, 15), Day(6, 16), Day(3, 9)>>

---------------------------------------------------------------------------
(* Emergency reschedule: EmergencyRescheduleModal, CalendarPage's          *)
(* handleEmergencyReschedule and addEmergencyReschedule of the data        *)
(* access module.  A text is a sequence of pieces.                         *)

EmergencyCreateError == "Failed to create emergency reschedule"
EmergencyUpdateError == "Failed to update affected appointments. Please try again."
EmergencyDoneMsg     == "Emergency reschedule completed successfully"
RangeBlockedMsg      == "Date range blocked successfully"

\* String.prototype.trim
RECURSIVE Trim(_)
Trim(text) ==
    IF text = <<>> THEN <<>>
    ELSE IF text[1] = " " THEN Trim(Tail(text))
    ELSE IF text[Len(text)] = " " THEN Trim(SubSeq(text, 1, Len(text) - 1))
    ELSE text

\* startDate && endDate && new Date(endDate) >= new Date(startDate)
isDateRangeValid(startDate, endDate) ==
    /\ startDate # NoDate
    /\ endDate # NoDate
    /\ DateParse(endDate) >= DateParse(startDate)

\* The appointments the modal offers: the scheduled ones of the range.
filteredAppointments(appts, startDate, endDate) ==
    IF ~isDateRangeValid(startDate, endDate) THEN <<>>
    ELSE LET InRange(appointment) ==
                 /\ appointment.status = "scheduled"
                 /\ DateParse(appointment.date) >= DateParse(startDate)
                 /\ DateParse(appointment.date) <= DateParse(endDate)
         IN SelectSeq(appts, InRange)

\* The ids ticked in the modal, in the order they were ticked.
Selections(offered) ==
    LET ids == {offered[i].id : i \in 1..Len(offered)}
    IN {sel \in BoundedSeq(ids, Cardinality(ids)) :
           /\ sel # <<>>
           /\ \A i, j \in 1..Len(sel) : i # j => sel[i] # sel[j]}

\* addEmergencyReschedule's loop: from new Date(start), pushing the UTC day of
\* d and moving d on by setDate(getDate() + 1), while d <= new Date(end).
RECURSIVE DatesFrom(_, _, _)
DatesFrom(z, d, endDate) ==
    IF d <= endDate
    THEN <<ToISODate(d)>> \o DatesFrom(z, SetDate(z, d, GetDate(z, d) + 1), endDate)
    ELSE <<>>

blockedDatesList(z, start, end) == DatesFrom(z, DateParse(start), DateParse(end))

\* The update without the status field.
RescheduleData_notesOnly(message) ==
    [notes |-> <<"Emergency rescheduled: ">> \o Trim(message)]

\* What handleEmergencyReschedule writes over an affected appointment.
RescheduleData(message) ==
    [status |-> "rescheduled",
     notes  |-> <<"Emergency rescheduled: ">> \o Trim(message)]

\* The affected ids the handler updates: those it finds in the page's
\* appointments with a status other than completed.
ToUpdate(snapshot, affected) ==
    LET Found(id) == \E i \in 1..Len(snapshot) :
                         snapshot[i].id = id /\ snapshot[i].status # "completed"
    IN SelectSeq(affected, Found)

\* Updates that are applied together or not at all: one failure undoes the
\* others.
RECURSIVE UpdateAll(_, _, _)
UpdateAll(coll, ids, data) ==
    IF ids = <<>> THEN coll
    ELSE updateAppointment(UpdateAll(coll, Tail(ids), data), Head(ids), data)

UpdateEach_rollback(coll, ids, failed, data) ==
    IF \E i \in 1..Len(ids) : ids[i] \in failed THEN coll
    ELSE UpdateAll(coll, ids, data)

\* The store after the updates of ids, those of failed left out.
RECURSIVE UpdateEach(_, _, _, _)
UpdateEach(coll, ids, failed, data) ==
    IF ids = <<>> THEN coll
    ELSE LET rest == UpdateEach(coll, Tail(ids), failed, data)
         IN IF Head(ids) \in failed THEN rest
            ELSE updateAppointment(rest, Head(ids), data)

LoginRequiredMsg == "You must be logged in to perform emergency rescheduling"

\* auth.currentUser as the handler reads it; a variant in which a user is
\* always found.
currentUser_signedIn == StaffUser

currentUser == authUser

\* The emergency modal of the calendar page is filled in and confirmed.  The
\* handler first reads auth.currentUser and returns when there is none.
\* fail: the write of addEmergencyReschedule that fails ("audit": the record,
\* "blocked": the blocked dates, "none"); failed: the updates that fail.
EmergencyReschedule(Reloads) ==
    /\ OnDashboard("calendar")
    /\ Len(reschedules) < MaxEmergencies
    /\ Len(blockedDates) < MaxBatches
    /\ \E startDate \in EmergencyDates, endDate \in EmergencyDates,
          message \in EmergencyMessages :
        LET offered == filteredAppointments(SelectSeq(calAppointments, IsNotCompleted),
                                            startDate, endDate)
        IN /\ Trim(message) # <<>>
           /\ isDateRangeValid(startDate, endDate)
           /\ \E affected \in Selections(offered), fail \in {"none", "audit", "blocked"} :
              \E failed \in SUBSET {affected[i] : i \in 1..Len(affected)} :
                LET record == [dateRange |-> [start |-> startDate, end |-> endDate],
                               affectedAppointments |-> affected,
                               message |-> Trim(message)]
                    ids == ToUpdate(calAppointments, affected)
                IN /\ fail # "none" => failed = {}
                   /\ IF currentUser = NoUser
                      THEN /\ fail = "none"
                           /\ failed = {}
                           /\ alert' = LoginRequiredMsg
                           /\ lastOp' = [op |-> "emergencyRefused"]
                           /\ UNCHANGED <<reschedules, blockedDates, appointments,
                                          calAppointments, calPatients, calBlocked>>
                      ELSE
                        /\ CASE fail = "audit" ->
                                  /\ alert' = EmergencyCreateError
                                  /\ UNCHANGED <<reschedules, blockedDates, appointments,
                                                 calAppointments, calPatients, calBlocked>>
                             [] fail = "blocked" ->
                                  /\ reschedules' = Append(reschedules, record)
                                  /\ alert' = EmergencyCreateError
                                  /\ UNCHANGED <<blockedDates, appointments,
                                                 calAppointments, calPatients, calBlocked>>
                             [] OTHER ->
                                  /\ reschedules' = Append(reschedules, record)
                                  /\ blockedDates' = addBlockedDates(blockedDates,
                                         blockedDatesList(zone, startDate, endDate))
                                  /\ appointments' = UpdateEach(appointments, ids, failed,
                                                                RescheduleData(message))
                                  /\ IF failed # {}
                                     THEN /\ alert' = EmergencyUpdateError
                                          /\ UNCHANGED <<calAppointments, calPatients, calBlocked>>
                                     ELSE /\ alert' = IF Len(affected) > 0
                                                      THEN EmergencyDoneMsg ELSE RangeBlockedMsg
                                          /\ \E okRead \in Reloads, okBlocked \in Reloads :
                                               SetCalState(loadData(okRead, okBlocked,
                                                   appointments', patients, blockedDates',
                                                   CalState))
                        /\ lastOp' = [op |-> "emergency", failed |-> failed]
    /\ UNCHANGED <<zone, otherPageVars, patients, formVars, page, listAppointments, listPatients,
                   listError>>

\* The appointments on file when the emergency arises.
OnFile(date, time, status, notes) ==
    [patientId |-> 1, patientName |-> FullName(PatientOnFile),
     patientPhone |-> GoodPhone, procedureType |-> "Cleaning",
     procedurePrice |-> getPrice("Cleaning"), price |-> getPrice("Cleaning"),
     date |-> date, time |-> time, status |-> status, notes |-> notes]

InitEmergency ==
    /\ zone \in Zones
    /\ patients = <<PatientOnFile>>
    /\ \E s1 \in EmergencyStatuses, s2 \in EmergencyStatuses :
         appointments = << OnFile(Day(3, 8), timeSlots[1], s1, <<"Allergic to latex">>),
                           OnFile(Day(3, 10), timeSlots[1], s2, <<>>),
                           OnFile(Day(3, 10), timeSlots[2], "scheduled", <<>>) >>
    /\ blockedDates = <<>>
    /\ reschedules = <<>>
    /\ FormIdle
    /\ StaffIdle

NextEmergency ==
    \/ StaffLogin
    \/ EmergencyReschedule({TRUE})

SpecEmergency == InitEmergency /\ [][NextEmergency]_vars

---------------------------------------------------------------------------
(* Properties of the emergency reschedule.                                 *)

\* The step is an emergency reschedule that wrote its record.
EmergencyStep == Len(reschedules') = Len(reschedules) + 1

\* The step is an emergency reschedule that completed successfully.
EmergencySucceeds == EmergencyStep /\ alert' = EmergencyDoneMsg

\* The record the step wrote.
Written_Record == reschedules'[Len(reschedules')]

IsSelected(id) ==
    \E k \in 1..Len(Written_Record.affectedAppointments) :
        Written_Record.affectedAppointments[k] = id

\* C8: after a successful emergency reschedule of the range start..end every
\* day of the range is in the stored blocked union, and the days it added to
\* the union all lie in the range.
C8_RangeBlocked ==
    [][EmergencySucceeds =>
         LET range == Written_Record.dateRange
         IN /\ \A d \in range.start..range.end : d \in UnionSet'
            /\ (UnionSet' \ UnionSet) \subseteq range.start..range.end]_vars

\* C9: after a successful emergency reschedule every selected appointment
\* that was not completed has the stored status 'rescheduled', and the status
\* of every appointment that was not selected is what it was.
C9_SelectedRescheduled ==
    [][EmergencySucceeds =>
         /\ Len(appointments') = Len(appointments)
         /\ \A id \in 1..Len(appointments) :
              /\ (IsSelected(id) /\ appointments[id].status # "completed")
                     => appointments'[id].status = "rescheduled"
              /\ ~IsSelected(id)
                     => appointments'[id].status = appointments[id].status]_vars

\* Two of the three appointments on file were selected and rescheduled, the
\* third was not and is still scheduled.
C9_Witness ==
    /\ alert = EmergencyDoneMsg
    /\ Len(reschedules) = 1
    /\ Len(reschedules[1].affectedAppointments) = 2
    /\ Cardinality({id \in 1..Len(appointments) :
                       appointments[id].status = "rescheduled"}) = 2
    /\ \E id \in 1..Len(appointments) : appointments[id].status = "scheduled"

IsPrefixOf(a, b) == Len(a) <= Len(b) /\ SubSeq(b, 1, Len(a)) = a
IsSuffixOf(a, b) == Len(a) <= Len(b) /\ SubSeq(b, Len(b) - Len(a) + 1, Len(b)) = a

\* C10: the notes of every appointment an emergency reschedule flips begin
\* with the notes it had before and end with the operator's message.
C10_MessageAppended ==
    [][EmergencyStep =>
         \A id \in 1..Len(appointments) :
             (appointments[id].status # "rescheduled"
              /\ appointments'[id].status = "rescheduled")
             => /\ IsPrefixOf(appointments[id].notes, appointments'[id].notes)
                /\ IsSuffixOf(Written_Record.message, appointments'[id].notes)]_vars


---------------------------------------------------------------------------
(* ReportsPage: the loaded appointments, the date filter and the revenue.  *)

\* ReportsPage.loadAppointments: every appointment that is not pending; a
\* failed read leaves the page's list as it was.
\* A load that keeps the pending requests: the mutation used to test C24.
ReportLoad_all(ok, appts, old) == IF ok THEN getAppointments(appts) ELSE old

ReportLoad(ok, appts, old) ==
    IF ok THEN SelectSeq(getAppointments(appts), LAMBDA a : a.status # "pending")
    ELSE old

\* a || b on numbers: 0 and a missing field are falsy.
OrNumber(r, f, other) == IF Field(r, f, 1 - 1) # 0 THEN r[f] ELSE other

\* The term one completed appointment adds to the revenue:
\* (procedurePrice || price || 0) * (occurrences || 1).
RevenueOf(apt) ==
    OrNumber(apt, "procedurePrice", OrNumber(apt, "price", 1 - 1))
        * OrNumber(apt, "occurrences", 1)

RECURSIVE SumRevenue(_)
SumRevenue(appts) ==
    IF appts = <<>> THEN 1 - 1
    ELSE SumRevenue(SubSeq(appts, 1, Len(appts) - 1)) + RevenueOf(appts[Len(appts)])

calculateRevenue(appts) ==
    SumRevenue(SelectSeq(appts, LAMBDA a : a.status = "completed"))

\* isWithinRange: '' is no bound; dates compare as YYYY-MM-DD strings.
isWithinRange(date, startDate, endDate) ==
    IF startDate # NoDate /\ endDate # NoDate THEN date >= startDate /\ date <= endDate
    ELSE IF startDate # NoDate THEN date >= startDate
    ELSE IF endDate # NoDate THEN date <= endDate
    ELSE TRUE

ReportFiltered ==
    SelectSeq(reportAppointments,
              LAMBDA a : isWithinRange(a.date, reportStartDate, reportEndDate))

totalRevenue == calculateRevenue(ReportFiltered)

\* The dashboard menu, entry 'reports': the page is mounted and loads.
OpenReports ==
    /\ DashboardDisplayed
    /\ page # "reports"
    /\ page' = "reports"
    /\ \E ok \in BOOLEAN :
        /\ reportAppointments' = ReportLoad(ok, appointments, <<>>)
        /\ lastOp' = [op |-> "reports", loaded |-> ok]
    /\ reportStartDate' = NoDate
    /\ reportEndDate' = NoDate
    /\ SetCalState(CalUnmounted)
    /\ currentDate' = NoInstant
    /\ ListUnmounted
    /\ RequestsUnmounted
    /\ alert' = NoMsg
    /\ UNCHANGED <<zone, storeVars, formVars, authVars>>

ReportRangeDates == {NoDate, Day(6, 15), Day(6, 16)}

\* The two date inputs of the report filter.
SetReportRange ==
    /\ OnDashboard("reports")
    /\ \E s \in ReportRangeDates, e \in ReportRangeDates :
        /\ <<s, e>> # <<reportStartDate, reportEndDate>>
        /\ reportStartDate' = s
        /\ reportEndDate' = e
    /\ lastOp' = [op |-> "range"]
    /\ UNCHANGED <<zone, storeVars, formVars, page, calAppointments, calPatients,
                   calBlocked, listAppointments, listPatients, listError,
                   reportAppointments, requestVars, calendarVars, authVars, alert>>

\* What the store can hold for the report: the booking form writes price and
\* no occurrences, the staff modals write price (and procedurePrice on edit)
\* and the occurrences field of the form, which the edit modal keeps as typed
\* once 'recurring' is unticked.
ReportPrices      == {1 - 1, 2500}
ReportProcPrices  == {0 - 1, 1 - 1, 1500}
ReportOccurrences == {0 - 9, 0 - 2, 1 - 1, 3}

ReportDoc(status, date, price, procPrice, occ) ==
    LET base == [patientId |-> 1, patientName |-> NameAna, date |-> date,
                 time |-> "9:00 AM", status |-> status, price |-> price]
        withP == IF procPrice = 0 - 1 THEN base
                 ELSE Merge(base, [procedurePrice |-> procPrice])
    IN IF occ = 0 - 9 THEN withP ELSE Merge(withP, [occurrences |-> occ])

ReportFirstDocs ==
    {ReportDoc("completed", Day(6, 15), p, pp, o) :
        p \in ReportPrices, pp \in ReportProcPrices, o \in ReportOccurrences}

ReportSecondDocs ==
    {ReportDoc(st, d, 1500, 0 - 1, o) :
        st \in {"completed", "scheduled", "pending"},
        d \in {Day(6, 15), Day(6, 16)}, o \in {0 - 9, 2}}

InitReports ==
    /\ zone \in Zones
    /\ patients = <<PatientOnFile>>
    /\ \E a \in ReportFirstDocs, b \in ReportSecondDocs : appointments = <<a, b>>
    /\ blockedDates = <<>>
    /\ reschedules = <<>>
    /\ FormIdle
    /\ StaffIdle
    /\ alert = NoMsg

NextReports ==
    \/ StaffLogin
    \/ OpenReports
    \/ SetReportRange

SpecReports == InitReports /\ [][NextReports]_vars

\* The revenue the page is specified to show: price * max(occurrences, 1) over
\* the loaded completed appointments inside the date filter.
SpecifiedTerm(apt) ==
    Field(apt, "price", 1 - 1) * Max(Field(apt, "occurrences", 1), 1)

RECURSIVE SpecifiedSum(_)
SpecifiedSum(appts) ==
    IF appts = <<>> THEN 1 - 1
    ELSE SpecifiedSum(SubSeq(appts, 1, Len(appts) - 1)) + SpecifiedTerm(appts[Len(appts)])

InFilter(apt) ==
    /\ reportStartDate # NoDate => apt.date >= reportStartDate
    /\ reportEndDate # NoDate => apt.date <= reportEndDate

\* C11: the total revenue on the reports page is the sum, over the loaded
\* completed appointments whose date is inside the (inclusive, optional) date
\* filter, of price * max(occurrences, 1), whatever price, procedurePrice and
\* occurrences hold.
C11_RevenueFormula ==
    OnDashboard("reports") =>
        totalRevenue =
            SpecifiedSum(SelectSeq(reportAppointments,
                                   LAMBDA a : a.status = "completed" /\ InFilter(a)))


---------------------------------------------------------------------------
(* The booking form at its last step: the roster is entered, the details   *)
(* are being filled in and the submission runs call by call.               *)

NameLia == <<"L", "i", "a">>

SubmitPatients ==
    PatientInputs \cup
    { [firstName |-> NameLia, lastName |-> NameCruz, age |-> 8, sex |-> "male"] }

\* The form as handleNextStep leaves it on arriving at step 3; the store may
\* hold a patient of an earlier booking; App's load of the blocked dates has
\* succeeded or failed.
InitSubmit ==
    /\ zone \in Zones
    /\ patients \in {<<>>, <<PatientOnFile>>}
    /\ appointments = <<>>
    /\ blockedDates = <<[dates |-> <<Day(6, 16)>>]>>
    /\ reschedules = <<>>
    /\ view = "booking"
    /\ \E ok \in BOOLEAN :
        /\ appBlocked = getBlockedDates(blockedDates, ok)
        /\ blockedLoad = IF ok THEN "loaded" ELSE "failed"
    /\ step = 3
    /\ contactInfo = [contactName |-> NameAna, email |-> GoodEmail, phone |-> GoodPhone]
    /\ showPhoneError = FALSE
    /\ showEmailError = FALSE
    /\ roster \in {r \in BoundedSeq(SubmitPatients, MaxRoster) : Len(r) >= 1}
    /\ details = [i \in 1..Len(roster) |-> InitialDetails]
    /\ loading = FALSE
    /\ pending = NoCall
    /\ StaffIdle
    /\ alert = NoMsg

NextSubmit ==
    \/ FillDetails(DetailInputs)
    \/ handleNextStep
    \/ PreviousStep
    \/ handleSubmit
    \/ AddPatientSettles
    \/ AddAppointmentSettles

SpecSubmit == InitSubmit /\ [][NextSubmit]_vars

\* The outstanding call of the running submission has settled with success.
PatientCreated ==
    pending.call = "addPatient" /\ pending' # pending /\ alert' # SubmitErrorMsg
AppointmentCreated ==
    pending.call = "addAppointment" /\ pending' # pending /\ alert' # SubmitErrorMsg

LastOf(coll) == coll[Len(coll)]

\* C12: in a submission whose backend calls all succeed the records are
\* created strictly in the order patient 1, appointment 1, patient 2,
\* appointment 2, ...: the submission starts with patient 1, every successful
\* call creates exactly one record of its kind, appointment i carries the id
\* returned for patient i, that patient's name and status 'pending', and the
\* submission ends with success exactly after appointment n of a roster of n.
C12_SubmissionOrder ==
    [][ /\ (pending = NoCall /\ pending' # NoCall) =>
              /\ pending' = [call |-> "addPatient", i |-> 1]
              /\ UNCHANGED <<patients, appointments>>
        /\ PatientCreated =>
              /\ patients' = Append(patients, LastOf(patients'))
              /\ LastOf(patients').firstName = roster[pending.i].firstName
              /\ LastOf(patients').lastName = roster[pending.i].lastName
              /\ UNCHANGED appointments
              /\ pending' = [call |-> "addAppointment", i |-> pending.i,
                             patientId |-> Len(patients')]
        /\ AppointmentCreated =>
              /\ appointments' = Append(appointments, LastOf(appointments'))
              /\ UNCHANGED patients
              /\ LastOf(appointments').patientId = pending.patientId
              /\ pending.patientId = Len(patients)
              /\ LastOf(appointments').patientName = FullName(LastOf(patients))
              /\ LastOf(appointments').patientName = FullName(roster[pending.i])
              /\ LastOf(appointments').status = "pending"
              /\ IF pending.i < Len(roster)
                 THEN pending' = [call |-> "addPatient", i |-> pending.i + 1]
                 ELSE pending' = NoCall /\ alert' = SubmittedMsg
        /\ alert' = SubmittedMsg => AppointmentCreated /\ pending.i = Len(roster)
      ]_vars

\* A roster of two: patient 1, appointment 1 and patient 2 are stored in this
\* order, each under the id the store gave, and appointment 2 is on its way.
C12_Witness ==
    /\ Len(roster) = 2
    /\ roster[1].firstName # roster[2].firstName
    /\ pending.call = "addAppointment" /\ pending.i = 2
    /\ Len(patients) = 3 /\ Len(appointments) = 1
    /\ appointments[1].patientId = 2
    /\ pending.patientId = 3


---------------------------------------------------------------------------
(* The steps of the booking form.                                          *)

\* The mounted form stays mounted over the step.
FormStays == view = "booking" /\ view' = "booking"

\* One booking form with a single roster entry, taken through its steps.
StepDetails == {d \in DetailInputs : d.time = timeSlots[1]}

NextSteps ==
    \/ loadBlockedDates
    \/ OpenBooking
    \/ CloseBooking
    \/ SetContactName({NameAna})
    \/ SetEmail({GoodEmail})
    \/ SetPhone({GoodPhone, BadPhone})
    \/ FillPatient(PatientSamples)
    \/ FillDetails(StepDetails)
    \/ handleNextStep
    \/ PreviousStep
    \/ handleSubmit
    \/ AddPatientSettles
    \/ AddAppointmentSettles

SpecSteps == InitForm /\ [][NextSteps]_vars

\* C13: the step of the booking form is always 1, 2 or 3; while the form is
\* mounted the step goes forward by exactly one, only from steps 1 and 2 and
\* only when isStepValid holds for that step, or back by exactly one, only
\* from steps 2 and 3; a submission is started only at step 3.
C13_StepMachine ==
    [][ /\ step \in {1, 2, 3} /\ step' \in {1, 2, 3}
        /\ (FormStays /\ step' > step) =>
              step' = step + 1 /\ step \in {1, 2} /\ isStepValid
        /\ (FormStays /\ step' < step) =>
              step' = step - 1 /\ step \in {2, 3}
        /\ (pending = NoCall /\ pending' # NoCall) => step = 3 /\ step' = 3
      ]_vars

\* Next was pressed twice, a submission was started at step 3 and Previous
\* was pressed while it runs.
C13_Witness ==
    /\ view = "booking" /\ step = 2
    /\ pending.call = "addPatient"


---------------------------------------------------------------------------
(* A backend call of a booking submission fails.                           *)

\* The outstanding call of the running submission is rejected.
SubmissionFails == pending # NoCall /\ alert' = SubmitErrorMsg

---------------------------------------------------------------------------
(* An update of the emergency reschedule fails.                            *)

\* The step is an emergency reschedule in which the update of at least one
\* selected appointment was rejected.
UpdateFails == lastOp'.op = "emergency" /\ lastOp'.failed # {} /\ lastOp' # lastOp

SuccessMsgs == {EmergencyDoneMsg, RangeBlockedMsg}

\* C15: when the update of a selected appointment fails during an emergency
\* reschedule, the audit record and the blocked-date batch stay stored, every
\* other selected appointment stays rescheduled, the appointment whose update
\* failed is as it was, no record is removed, and the operator is shown the
\* failure message, not a success message.
C15_UpdateFailureKeepsWrites ==
    [][ UpdateFails =>
          LET record == LastOf(reschedules')
              chosen == {record.affectedAppointments[i] :
                            i \in 1..Len(record.affectedAppointments)}
          IN /\ reschedules' = Append(reschedules, record)
             /\ blockedDates' = Append(blockedDates, LastOf(blockedDates'))
             /\ LastOf(blockedDates').dates # <<>>
             /\ lastOp'.failed \subseteq chosen
             /\ Len(appointments') = Len(appointments)
             /\ \A id \in chosen \ lastOp'.failed :
                    appointments'[id].status = "rescheduled"
             /\ \A id \in (1..Len(appointments)) \ (chosen \ lastOp'.failed) :
                    appointments'[id] = appointments[id]
             /\ alert' = EmergencyUpdateError
             /\ alert' \notin SuccessMsgs
      ]_vars

\* Two appointments were selected; the update of one was applied, that of the
\* other failed: record and batch are stored, the failure message is shown.
C15_Witness ==
    /\ lastOp.op = "emergency" /\ lastOp.failed # {}
    /\ alert = EmergencyUpdateError
    /\ Len(reschedules) = 1 /\ Len(blockedDates) = 1
    /\ \E id \in lastOp.failed : appointments[id].status = "scheduled"
    /\ \E id \in 1..Len(appointments) :
          id \notin lastOp.failed /\ appointments[id].status = "rescheduled"


---------------------------------------------------------------------------
(* A second staff client works on the same store.                          *)

\* Another staff client, whose calendar page shows the store as it is, opens
\* an appointment in its edit modal, sets the status to 'completed' and
\* saves.  Nothing of this client changes.
OtherStaffCompletes ==
    /\ \E id \in 1..Len(appointments) :
        LET selectedAppointment == AppointmentView(WithIds(appointments)[id])
            formData == EditedForm(selectedAppointment, getPatients(patients),
                                   selectedAppointment.date, selectedAppointment.time,
                                   "completed")
        IN /\ IsNotCompleted(selectedAppointment)
           /\ isFormValid(getBlockedDates(blockedDates, TRUE), formData)
           /\ appointments' = updateAppointment(appointments, id, cleanData(formData))
    /\ lastOp' = [op |-> "otherEdit"]
    /\ UNCHANGED <<zone, patients, blockedDates, reschedules, formVars, staffVars, alert>>

NextEmergencyRace ==
    \/ StaffLogin
    \/ OtherStaffCompletes
    \/ EmergencyReschedule({TRUE})

SpecEmergencyRace == InitEmergency /\ [][NextEmergencyRace]_vars

\* C16: an emergency reschedule never changes the status of an appointment
\* that is stored as 'completed', also when another staff client completed it
\* after this client loaded its snapshot.
C16_CompletedKept ==
    [][ (lastOp'.op = "emergency" /\ EmergencyStep) =>
          \A id \in 1..Len(appointments) :
              appointments[id].status = "completed" =>
                  appointments'[id].status = "completed"
      ]_vars


---------------------------------------------------------------------------
(* Two patients book at the same time from two browsers.                   *)

OtherPatient ==
    [firstName |-> NameLia, lastName |-> NameCruz, age |-> 8, sex |-> "male",
     contactName |-> NameLia, email |-> GoodEmail, phone |-> GoodPhone,
     name |-> NameLia \o <<" ">> \o NameCruz, status |-> "active"]

OtherAppointment(d, patientId) ==
    [patientId      |-> patientId,
     patientName    |-> FullName(OtherPatient),
     patientPhone   |-> OtherPatient.phone,
     procedureType  |-> d.procedureType,
     procedurePrice |-> getPrice(d.procedureType),
     date           |-> formatDate(zone, d.date),
     time           |-> d.time,
     price          |-> getPrice(d.procedureType),
     notes          |-> d.notes,
     status         |-> "pending"]

\* The booking form of a second browser, which loaded the blocked dates when
\* it was opened, is submitted with one roster entry: handleSubmit with its
\* two checks, then addPatient and addAppointment, which succeed.  lastOp
\* keeps what that browser showed and where this browser stood meanwhile.
OtherPatientBooks ==
    /\ lastOp.op = "none"
    /\ Len(patients) < MaxPatients
    /\ Len(appointments) < MaxAppointments
    /\ \E d \in StepDetails, ok \in BOOLEAN :
        LET otherBlocked == getBlockedDates(blockedDates, ok)
            otherDetails == <<d>>
        IN /\ ~isDateBlocked(otherBlocked, d.date)
           /\ IF isTimeSlotTaken(otherDetails, d.date, d.time, 1)
              THEN /\ lastOp' = [op |-> "otherBooking", alert |-> SameSlotMsg,
                                 loaded |-> blockedLoad # "outstanding",
                                 inFlight |-> pending # NoCall]
                   /\ UNCHANGED <<patients, appointments>>
              ELSE /\ patients' = addPatient(patients, OtherPatient)
                   /\ appointments' = addAppointment(appointments,
                                          OtherAppointment(d, NewId(patients)))
                   /\ lastOp' = [op |-> "otherBooking", alert |-> SubmittedMsg,
                                 loaded |-> blockedLoad # "outstanding",
                                 inFlight |-> pending # NoCall]
    /\ UNCHANGED <<zone, blockedDates, reschedules, formVars, staffVars, alert>>

\* This browser's form is at its last step when the second browser books.
NextBookingRace ==
    \/ FillDetails(StepDetails)
    \/ handleSubmit
    \/ AddPatientSettles
    \/ AddAppointmentSettles
    \/ OtherPatientBooks

SpecBookingRace == InitSubmit /\ [][NextBookingRace]_vars

\* Two entries of this form ask for one slot.
RosterHasSameSlot ==
    \E i \in 1..Len(details), j \in 1..Len(details) :
        i # j /\ details[i].date = details[j].date /\ details[i].time = details[j].time

\* C17: the slot check of a submission compares the entries of its own form
\* only, so no browser is shown a conflict because of what the store holds or
\* of what another browser writes: a conflict message appears only for two
\* entries of one form, and a second browser's one-entry booking never gets
\* one.  The state in which both browsers have stored a pending appointment
\* for one slot is C17_Witness.
C17_OnlyOwnEntriesChecked ==
    [][ /\ (alert' = SameSlotMsg /\ alert # SameSlotMsg) => RosterHasSameSlot
        /\ (lastOp'.op = "otherBooking" /\ lastOp.op = "none") =>
              lastOp'.alert = SubmittedMsg
      ]_vars

\* Both browsers had loaded their blocked dates before either wrote; the
\* second browser stored its appointment while this one's submission was in
\* flight; both appointments are pending on one date and time, and both
\* browsers showed the success message.
C17_Witness ==
    /\ alert = SubmittedMsg
    /\ lastOp.op = "otherBooking" /\ lastOp.alert = SubmittedMsg
    /\ lastOp.loaded /\ lastOp.inFlight
    /\ \E a \in 1..Len(appointments), b \in 1..Len(appointments) :
          /\ a # b
          /\ appointments[a].patientName = FullName(OtherPatient)
          /\ appointments[b].patientName # FullName(OtherPatient)
          /\ appointments[a].date = appointments[b].date
          /\ appointments[a].time = appointments[b].time
          /\ appointments[a].status # "cancelled"
          /\ appointments[b].status # "cancelled"


---------------------------------------------------------------------------
(* The load of the blocked dates fails.                                    *)

DetailsComplete ==
    \A i \in 1..Len(details) :
        details[i].procedureType # "" /\ details[i].date # NoDate /\ details[i].time # ""

\* C18: after a failed load of the blocked dates the client treats no date
\* as blocked: getBlockedDates has answered with the empty list, isDateBlocked
\* is false for every date, also for those blocked in the store, no
\* blocked-date rejection is shown, and a form whose details are complete
\* passes the step check and the blocked-date check of handleSubmit whatever
\* its dates.
C18_FailedLoadBlocksNothing ==
    blockedLoad = "failed" =>
        /\ getBlockedDates(blockedDates, FALSE) = <<>>
        /\ appBlocked = <<>>
        /\ \A d \in FormDates \cup UnionSet : ~isDateBlocked(appBlocked, d)
        /\ alert # BlockedDateMsg
        /\ (view = "booking" /\ step = 3 /\ DetailsComplete) =>
               isStepValid /\ ~hasBlockedDate

\* The load failed and a booking on a date that the store blocks has gone
\* through: its appointment is stored and the success message is shown.
C18_Witness ==
    /\ blockedLoad = "failed"
    /\ alert = SubmittedMsg
    /\ \E a \in 1..Len(appointments) : appointments[a].date \in UnionSet


---------------------------------------------------------------------------
(* Two entries of one form on the same slot.                               *)

\* C19: a form with two roster entries on the same date and time is rejected
\* by Submit before any backend write: the same-slot message is shown, no
\* call goes out, no patient and no appointment is created, the form stays
\* open at step 3 with its data and the loading flag is clear.
C19_SameSlotRejected ==
    [][ /\ (handleSubmit /\ RosterHasSameSlot) =>
              /\ alert' = SameSlotMsg
              /\ pending' = NoCall
              /\ UNCHANGED <<patients, appointments>>
              /\ view' = "booking" /\ step' = 3 /\ ~loading'
              /\ UNCHANGED <<roster, details, contactInfo>>
        /\ (RosterHasSameSlot /\ pending = NoCall) =>
              /\ pending' = NoCall
              /\ UNCHANGED <<patients, appointments>>
      ]_vars

\* Submit was pressed on a complete form with two entries on one slot:
\* rejected, nothing written.
C19_Witness ==
    /\ alert = SameSlotMsg
    /\ RosterHasSameSlot /\ DetailsComplete
    /\ view = "booking" /\ step = 3 /\ ~loading /\ pending = NoCall
    /\ appointments = <<>>
    /\ patients \in {<<>>, <<PatientOnFile>>}


---------------------------------------------------------------------------
(* AppointmentRequestsPage: the pending requests are approved or rejected. *)

MaxInFlight == 2

ApprovedMsg     == "Appointment approved successfully"
ApproveErrorMsg == "Error approving appointment"
RejectedMsg     == "Appointment rejected"
RejectErrorMsg  == "Error rejecting appointment"

\* A query without its where clause: the mutation used to test C27.
getAppointmentsByStatus_all(coll, status) == WithIds(coll)

\* getAppointmentsByStatus: the documents of that status with their ids.
getAppointmentsByStatus(coll, status) ==
    SelectSeq(WithIds(coll), LAMBDA a : a.status = status)

\* loadPendingAppointments: a failed read is logged and the list stays.
loadPendingAppointments(ok, coll, old) ==
    IF ok THEN getAppointmentsByStatus(coll, "pending") ELSE old

\* The dashboard menu, entry 'requests': the page is mounted and loads.
OpenRequests ==
    /\ DashboardDisplayed
    /\ page # "requests"
    /\ page' = "requests"
    /\ \E ok \in BOOLEAN :
        /\ pendingAppointments' = loadPendingAppointments(ok, appointments, <<>>)
        /\ lastOp' = [op |-> "requests", loaded |-> ok]
    /\ UNCHANGED requestsInFlight
    /\ SetCalState(CalUnmounted)
    /\ currentDate' = NoInstant
    /\ ListUnmounted
    /\ ReportUnmounted
    /\ alert' = NoMsg
    /\ UNCHANGED <<zone, storeVars, formVars, authVars>>

RequestFrame ==
    UNCHANGED <<zone, formVars, page, calAppointments, calPatients, calBlocked,
                listAppointments, listPatients, listError, reportVars, calendarVars,
                authVars>>

\* The Approve button of a row: handleApproveAppointment up to its first
\* await.  The button carries no disabled attribute.
handleApproveAppointment ==
    /\ OnDashboard("requests")
    /\ Len(requestsInFlight) < MaxInFlight
    /\ \E k \in 1..Len(pendingAppointments) :
        requestsInFlight' = Append(requestsInFlight,
            [call |-> "approve", id |-> pendingAppointments[k].id])
    /\ lastOp' = [op |-> "approve"]
    /\ UNCHANGED <<storeVars, pendingAppointments, alert>>
    /\ RequestFrame

\* The Reject button of a row.
handleRejectAppointment ==
    /\ OnDashboard("requests")
    /\ Len(requestsInFlight) < MaxInFlight
    /\ \E k \in 1..Len(pendingAppointments) :
        requestsInFlight' = Append(requestsInFlight,
            [call |-> "reject", id |-> pendingAppointments[k].id])
    /\ lastOp' = [op |-> "reject"]
    /\ UNCHANGED <<storeVars, pendingAppointments, alert>>
    /\ RequestFrame

\* The update of a request settles: on success the list is loaded again and
\* the success message shown, on failure the error message.
RequestSettles ==
    /\ \E k \in 1..Len(requestsInFlight), ok \in BOOLEAN, okRead \in BOOLEAN :
        LET request == requestsInFlight[k]
            approve == request.call = "approve"
        IN /\ requestsInFlight' = RemoveAt(requestsInFlight, k)
           /\ IF ok
              THEN /\ appointments' = updateAppointment(appointments, request.id,
                          [status |-> IF approve THEN "scheduled" ELSE "cancelled"])
                   /\ pendingAppointments' =
                          IF OnDashboard("requests")
                          THEN loadPendingAppointments(okRead, appointments',
                                                       pendingAppointments)
                          ELSE pendingAppointments
                   /\ alert' = IF approve THEN ApprovedMsg ELSE RejectedMsg
              ELSE /\ alert' = IF approve THEN ApproveErrorMsg ELSE RejectErrorMsg
                   /\ UNCHANGED <<appointments, pendingAppointments>>
           /\ lastOp' = [op |-> "settled", call |-> request.call, id |-> request.id,
                         ok |-> ok, reloaded |-> ok /\ okRead /\ OnDashboard("requests")]
    /\ UNCHANGED <<patients, blockedDates, reschedules>>
    /\ RequestFrame

\* Two booking requests wait for approval.
InitRequests ==
    /\ zone \in Zones
    /\ patients = <<PatientOnFile>>
    /\ \E s \in {"pending", "scheduled"} :
         appointments = << OnFile(Day(6, 15), timeSlots[1], "pending", <<>>),
                           OnFile(Day(6, 15), timeSlots[2], s, <<>>) >>
    /\ blockedDates = <<>>
    /\ reschedules = <<>>
    /\ FormIdle
    /\ StaffIdle
    /\ alert = NoMsg

NextRequests ==
    \/ StaffLogin
    \/ OpenRequests
    \/ handleApproveAppointment
    \/ handleRejectAppointment
    \/ RequestSettles

SpecRequests == InitRequests /\ [][NextRequests]_vars

\* C20: an action that issues a backend call is disabled while its request
\* is outstanding, so it is never in flight twice from one page: the booking
\* form has at most one submission under way and shows it as loading, and the
\* requests page never has two approve or reject requests under way for the
\* same appointment.
C20_NoDoubleRequest ==
    /\ pending # NoCall => loading
    /\ \A i \in 1..Len(requestsInFlight), j \in 1..Len(requestsInFlight) :
          i # j => requestsInFlight[i].id # requestsInFlight[j].id

---------------------------------------------------------------------------
(* After a failure.  A handler whose backend call failed leaves its page   *)
(* as follows:                                                             *)
(*   - BookingForm.handleSubmit clears loading in its finally block and    *)
(*     keeps the form;                                                     *)
(*   - CalendarPage shows an alert and keeps its state;                    *)
(*   - AppointmentListPage sets error, and while error is not '' its       *)
(*     render returns the error box alone: the list, its filters and its   *)
(*     buttons are not rendered, and nothing of the page sets error back   *)
(*     to ''.                                                              *)

\* AppointmentListPage renders its list (and the buttons that act on it).
ListIsRendered == listError = ""

\* C21: after a backend failure has settled the page can be acted on again:
\* the booking form's loading flag is cleared, the calendar page keeps the
\* state it showed, and the appointment list that was shown before the
\* failure is shown again.
C21_FailureLeavesPageUsable ==
    [][ /\ (pending # NoCall /\ pending' = NoCall) => ~loading'
        /\ (OnDashboard("calendar") /\ alert' \in {AddErrorMsg, EditErrorMsg})
              => /\ page' = "calendar"
                 /\ <<calAppointments', calPatients', calBlocked'>> =
                       <<calAppointments, calPatients, calBlocked>>
        /\ (OnDashboard("appointments") /\ ListIsRendered
               /\ lastOp'.op \in {"listAdd", "listEdit"})
              => ListIsRendered' ]_vars

---------------------------------------------------------------------------
(* fixAppointmentDates (services/firestore.ts): the corrective utility.    *)
(* Here the date of a stored appointment is the text itself, a sequence of *)
(* characters, because the utility takes the text apart.                   *)

MaxFixDocs == 2   \* documents in 'appointments' when the utility runs

NaN == 0 - 1

DigitChars == <<"0", "1", "2", "3", "4", "5", "6", "7", "8", "9">>
DigitValue(c) == (CHOOSE i \in 1..10 : DigitChars[i] = c) - 1

\* String.prototype.split(sep)
RECURSIVE SplitOn(_, _)
SplitOn(s, sep) ==
    IF \A i \in 1..Len(s) : s[i] # sep THEN <<s>>
    ELSE LET k == CHOOSE i \in 1..Len(s) :
                     s[i] = sep /\ \A j \in 1..(i - 1) : s[j] # sep
         IN <<SubSeq(s, 1, k - 1)>> \o SplitOn(SubSeq(s, k + 1, Len(s)), sep)

\* Number(text): '' is 0, a run of digits is its value, anything else NaN.
RECURSIVE NumberOf(_)
NumberOf(text) ==
    IF text = <<>> THEN 0
    ELSE IF \E i \in 1..Len(text) : ~IsDigit(text[i]) THEN NaN
    ELSE NumberOf(SubSeq(text, 1, Len(text) - 1)) * 10 + DigitValue(text[Len(text)])

\* String(n) of a natural number, and String(n).padStart(2, '0').
RECURSIVE NumText(_)
NumText(n) ==
    IF n < 10 THEN <<DigitChars[n + 1]>>
    ELSE NumText(n \div 10) \o <<DigitChars[(n % 10) + 1]>>
Pad2(n) == IF n < 10 THEN <<"0">> \o NumText(n) ELSE NumText(n)

NaNDateText == <<"N", "a", "N", "-", "N", "a", "N", "-", "N", "a", "N">>

\* date.split('T')[0], as getAppointments hands the date on.
DateTextPart(date) == SplitOn(date, "T")[1]

\* const [year, month, day] = date.split('-').map(Number);
\* localDate = new Date(year, month - 1, day); correctedDate = the local
\* year, month and day of localDate, the last two padded to two digits.
\* (Years 2025 and 2026, the calendar of this module.)
correctedDate(date) ==
    LET parts == SplitOn(date, "-")
        part(i) == IF i <= Len(parts) THEN NumberOf(parts[i]) ELSE NaN
        year  == part(1)
        month == part(2)
        day   == part(3)
    IN IF NaN \in {year, month, day} THEN NaNDateText
       ELSE LET d == MakeDay((year - 2025) * 12 + month - 1, day)
            IN NumText(2025 + (MonthFromDay(d) \div 12)) \o <<"-">>
                 \o Pad2((MonthFromDay(d) % 12) + 1) \o <<"-">>
                 \o Pad2(DateFromDay(d))

\* The loop over getAppointments(): a document is put into the batch when the
\* corrected date differs from the date as read.
NeedsCorrection(doc) == correctedDate(DateTextPart(doc.date)) # DateTextPart(doc.date)

\* batch.commit(): every update of the batch is applied, together.
BatchCommit(coll) ==
    [i \in 1..Len(coll) |->
        IF NeedsCorrection(coll[i])
        THEN Merge(coll[i], [date |-> correctedDate(DateTextPart(coll[i].date))])
        ELSE coll[i]]

\* One run of the utility: the read or the commit may fail, and then the catch
\* block returns false with nothing written.
fixAppointmentDates ==
    /\ \E outcome \in {"committed", "readFails", "commitFails"} :
        IF outcome = "committed"
        THEN /\ appointments' = BatchCommit(appointments)
             /\ lastOp' = [op |-> "fix", result |-> TRUE]
        ELSE /\ UNCHANGED appointments
             /\ lastOp' = [op |-> "fix", result |-> FALSE]
    /\ UNCHANGED <<zone, patients, blockedDates, reschedules, formVars, staffVars, alert>>

\* Date texts found in the store: as the date inputs write them, without the
\* leading zeros, a day past the end of its month, and with a time part.
FixDateSamples ==
    { <<"2", "0", "2", "5", "-", "0", "6", "-", "1", "5">>,
      <<"2", "0", "2", "5", "-", "6", "-", "5">>,
      <<"2", "0", "2", "5", "-", "0", "2", "-", "3", "0">>,
      <<"2", "0", "2", "5", "-", "0", "6", "-", "1", "5", "T", "0", "9", ":", "0", "0">> }

InitFix ==
    /\ zone \in Zones
    /\ patients = <<PatientOnFile>>
    /\ \E n \in 1..MaxFixDocs :
         appointments \in [1..n -> { OnFile(d, timeSlots[1], "scheduled", <<>>) :
                                       d \in FixDateSamples }]
    /\ blockedDates = <<>>
    /\ reschedules = <<>>
    /\ FormIdle
    /\ StaffIdle

NextFix == fixAppointmentDates

SpecFix == InitFix /\ [][NextFix]_vars

\* A date text in the form YYYY-MM-DD that names a day of the calendar.
IsCanonicalDate(text) ==
    /\ Len(text) = 10
    /\ \A i \in 1..10 : IF i \in {5, 8} THEN text[i] = "-" ELSE IsDigit(text[i])
    /\ LET month == NumberOf(SubSeq(text, 6, 7))
           day   == NumberOf(SubSeq(text, 9, 10))
       IN /\ month \in 1..12
          /\ day \in 1..MonthLengths[month]

FixReturnsTrue == lastOp'.op = "fix" /\ lastOp'.result

\* C22: the corrections are one atomic batch.  When the utility returns true,
\* exactly the appointments whose stored date is not in canonical YYYY-MM-DD
\* form have been rewritten (to a canonical date, nothing else of them
\* changed) and all others are unchanged; when it returns false no date has
\* changed; a second run after a success changes nothing.
C22_AtomicDateFix ==
    [][ /\ FixReturnsTrue =>
              \A i \in 1..Len(appointments) :
                  IF IsCanonicalDate(appointments[i].date)
                  THEN appointments'[i] = appointments[i]
                  ELSE /\ appointments'[i] # appointments[i]
                       /\ IsCanonicalDate(appointments'[i].date)
                       /\ appointments'[i] =
                             Merge(appointments[i], [date |-> appointments'[i].date])
        /\ (lastOp'.op = "fix" /\ ~lastOp'.result) => appointments' = appointments
        /\ (lastOp.op = "fix" /\ lastOp.result /\ FixReturnsTrue)
              => appointments' = appointments ]_vars

---------------------------------------------------------------------------
(* CalendarPage: the month grid.                                           *)

MaxMonth == 14   \* the last month that nextMonth reaches (months since Jan 2025)

\* Date.getUTCDay in the place of getDay: the mutation used to test C23.
GetDay_utc(z, t) == ((t \div 24) + 3) % 7

\* Date.getDay: the local day of the week, 0 = Sunday (2025-01-01 is a
\* Wednesday).
GetDay(z, t) == ((LocalTime(z, t) \div 24) + 3) % 7

\* One cell of the grid: the local calendar day of a Date and its day of the
\* month.
CalendarCell(z, t, isCurrentMonth) ==
    [date |-> FormatLocalDate(z, t), dayOfMonth |-> GetDate(z, t),
     isCurrentMonth |-> isCurrentMonth]

\* CalendarPage.generateCalendarDays.  The year and the month of the code are
\* one number here, the months since January 2025.
generateCalendarDays(z, current) ==
    LET month == GetMonth(z, current)
        firstDay == DateLocal(z, month, 1)
        lastDay  == DateLocal(z, month + 1, 0)
        firstDayOfWeek == GetDay(z, firstDay)
        \* for (i = firstDayOfWeek - 1; i >= 0; i--) new Date(year, month, -i)
        previous == [k \in 1..firstDayOfWeek |->
                        CalendarCell(z, DateLocal(z, month, 0 - (firstDayOfWeek - k)), FALSE)]
        \* for (i = 1; i <= lastDay.getDate(); i++) new Date(year, month, i)
        thisMonth == [i \in 1..GetDate(z, lastDay) |->
                        [date |-> FormatLocalDate(z, DateLocal(z, month, i)),
                         dayOfMonth |-> i, isCurrentMonth |-> TRUE]]
        remainingDays == 42 - (Len(previous) + Len(thisMonth))
        \* for (i = 1; i <= remainingDays; i++) new Date(year, month + 1, i)
        following == [i \in 1..remainingDays |->
                        CalendarCell(z, DateLocal(z, month + 1, i), FALSE)]
    IN previous \o thisMonth \o following

\* The arrows above the grid.  The calendar of this module begins with
\* January 2025 and the model stops at month MaxMonth.
previousMonth ==
    /\ OnDashboard("calendar")
    /\ GetMonth(zone, currentDate) > 0
    /\ currentDate' = DateLocal(zone, GetMonth(zone, currentDate) - 1, 1)
    /\ lastOp' = [op |-> "previousMonth"]
    /\ UNCHANGED <<zone, storeVars, formVars, page, calAppointments, calPatients, calBlocked,
                   listAppointments, listPatients, listError, reportVars, requestVars,
                   authVars, alert>>

nextMonth ==
    /\ OnDashboard("calendar")
    /\ GetMonth(zone, currentDate) < MaxMonth
    /\ currentDate' = DateLocal(zone, GetMonth(zone, currentDate) + 1, 1)
    /\ lastOp' = [op |-> "nextMonth"]
    /\ UNCHANGED <<zone, storeVars, formVars, page, calAppointments, calPatients, calBlocked,
                   listAppointments, listPatients, listError, reportVars, requestVars,
                   authVars, alert>>

NextCalendar ==
    \/ StaffLogin
    \/ SelectPage
    \/ previousMonth
    \/ nextMonth

SpecCalendar == InitStaff /\ [][NextCalendar]_vars

\* The month on display and the days (date strings) it has.
DisplayedMonth == MonthFromDay(LocalTime(zone, currentDate) \div 24)
DaysOfMonth(m) == DaysBeforeMonth(m)..(DaysBeforeMonth(m + 1) - 1)

\* C23: for every displayed month the grid has exactly 42 cells, holding 42
\* consecutive calendar days of which the first is a Sunday; every day of the
\* displayed month occurs exactly once, the cells flagged as current-month
\* are exactly the days of that month, and the other cells are days of the
\* month before and the month after.
C23_MonthGrid ==
    OnDashboard("calendar") =>
        LET days == generateCalendarDays(zone, currentDate)
        IN /\ Len(days) = 42
           /\ \A i \in 1..(Len(days) - 1) : days[i + 1].date = days[i].date + 1
           /\ (days[1].date + 3) % 7 = 0
           /\ \A d \in DaysOfMonth(DisplayedMonth) :
                 Cardinality({i \in 1..Len(days) : days[i].date = d}) = 1
           /\ \A i \in 1..Len(days) :
                 /\ days[i].isCurrentMonth <=> days[i].date \in DaysOfMonth(DisplayedMonth)
                 /\ ~days[i].isCurrentMonth =>
                       days[i].date \in DaysOfMonth(DisplayedMonth - 1)
                                          \cup DaysOfMonth(DisplayedMonth + 1)
                 /\ days[i].dayOfMonth = DateFromDay(days[i].date)

\* The grid of February 2026, a month of 28 days that begins on a Sunday, is
\* on display after the arrows were used, in the zone with the clock change.
C23_Witness ==
    /\ OnDashboard("calendar")
    /\ lastOp.op = "nextMonth"
    /\ DisplayedMonth = 13
    /\ zone = NewYork
    /\ Len(generateCalendarDays(zone, currentDate)) = 42
    /\ generateCalendarDays(zone, currentDate)[1].isCurrentMonth

---------------------------------------------------------------------------
(* The other figures of the reports page.                                  *)

\* appointments.reduce(... acc[key] = (acc[key] || 0) + 1): the number of
\* appointments for every key that occurs.
CountBy(appts, field) ==
    [k \in {Field(appts[i], field, "undefined") : i \in 1..Len(appts)} |->
        Cardinality({i \in 1..Len(appts) : Field(appts[i], field, "undefined") = k})]

getProcedureDistribution(appts) == CountBy(appts, "procedureType")
getStatusDistribution(appts) == CountBy(appts, "status")

\* getMonthlyRevenue: the revenue of the completed appointments by the local
\* month of new Date(apt.date).
getMonthlyRevenue(z, appts) ==
    LET completed == SelectSeq(appts, LAMBDA a : a.status = "completed")
        monthOf(a) == GetMonth(z, DateParse(a.date))
    IN [m \in {monthOf(completed[i]) : i \in 1..Len(completed)} |->
           SumRevenue(SelectSeq(completed, LAMBDA a : monthOf(a) = m))]

\* calculateMetrics().totalAppointments
totalAppointments == Len(ReportFiltered)

\* The stored appointments that are not pending and lie in the date filter,
\* in the order of getAppointments.
StoredForReport ==
    SelectSeq(getAppointments(appointments),
              LAMBDA a : a.status # "pending"
                         /\ isWithinRange(a.date, reportStartDate, reportEndDate))

StoredPendingInRange ==
    {i \in 1..Len(appointments) :
        /\ appointments[i].status = "pending"
        /\ isWithinRange(appointments[i].date, reportStartDate, reportEndDate)}

\* C24: no pending appointment contributes to a figure of the reports page:
\* the page holds no pending appointment, and once it has loaded the total
\* count, the status histogram, the procedure histogram and the revenue
\* figures are those of the stored appointments with the pending ones
\* removed.
C24_PendingNotReported ==
    OnDashboard("reports") =>
        /\ \A i \in 1..Len(reportAppointments) : reportAppointments[i].status # "pending"
        /\ "pending" \notin DOMAIN getStatusDistribution(ReportFiltered)
        /\ reportAppointments # <<>> =>
              /\ totalAppointments = Len(StoredForReport)
              /\ getStatusDistribution(ReportFiltered) = getStatusDistribution(StoredForReport)
              /\ getProcedureDistribution(ReportFiltered)
                    = getProcedureDistribution(StoredForReport)
              /\ totalRevenue = calculateRevenue(StoredForReport)
              /\ getMonthlyRevenue(zone, ReportFiltered)
                    = getMonthlyRevenue(zone, StoredForReport)

\* The page has loaded while a pending request inside the date filter is
\* stored next to a completed appointment; one appointment is counted.
C24_Witness ==
    /\ OnDashboard("reports")
    /\ reportAppointments # <<>>
    /\ reportStartDate = Day(6, 15)
    /\ StoredPendingInRange # {}
    /\ totalAppointments = 1
    /\ getStatusDistribution(ReportFiltered) = ("completed" :> 1)

---------------------------------------------------------------------------
(* The order of the writes of one emergency reschedule.                    *)

\* The step is a run of handleEmergencyReschedule past its sign-in check.
EmergencyHandled == lastOp'.op = "emergency"

AuditWritten   == reschedules' # reschedules
BlockedWritten == blockedDates' # blockedDates

\* C25: the writes of one emergency reschedule happen in a fixed order: the
\* audit record first, then the blocked-date batch, and the appointments only
\* after both: a blocked-date batch is stored only together with the audit
\* record, an appointment changes only when both were stored, and when the
\* audit record or the blocked-date batch could not be written no status and
\* no notes of an appointment have changed.
C25_WriteOrder ==
    [][ EmergencyHandled =>
          /\ BlockedWritten => AuditWritten
          /\ appointments' # appointments => (AuditWritten /\ BlockedWritten)
          /\ (~AuditWritten \/ ~BlockedWritten) =>
                /\ alert' = EmergencyCreateError
                /\ \A id \in 1..Len(appointments) :
                      /\ appointments'[id].status = appointments[id].status
                      /\ appointments'[id].notes = appointments[id].notes ]_vars

\* The audit record was written and the blocked-date batch failed: the record
\* is stored, no date is blocked and the selected appointment, which the
\* modal had offered as scheduled, is still scheduled.
C25_Witness ==
    /\ lastOp.op = "emergency"
    /\ alert = EmergencyCreateError
    /\ Len(reschedules) = 1
    /\ Len(reschedules[1].affectedAppointments) > 0
    /\ blockedDates = <<>>
    /\ \A k \in 1..Len(reschedules[1].affectedAppointments) :
          appointments[reschedules[1].affectedAppointments[k]].status # "rescheduled"

---------------------------------------------------------------------------
(* A request is approved by a second staff client while this client's      *)
(* calendar page still shows it as pending.                                *)

\* Another signed-in client, on its requests page, approves or rejects a
\* pending request (handleApproveAppointment / handleRejectAppointment there,
\* settled).
OtherStaffDecides ==
    /\ \E id \in 1..Len(appointments), status \in {"scheduled", "cancelled"} :
        /\ appointments[id].status = "pending"
        /\ appointments' = updateAppointment(appointments, id, [status |-> status])
    /\ lastOp' = [op |-> "otherDecides"]
    /\ UNCHANGED <<zone, patients, blockedDates, reschedules, formVars, staffVars, alert>>

NextStatusRace ==
    \/ StaffLogin
    \/ OtherStaffDecides
    \/ CalendarEdit({TRUE})

SpecStatusRace == InitRequests /\ [][NextStatusRace]_vars

\* C26: once the stored status of an appointment is no longer 'pending', no
\* operation of any staff client sets it back to 'pending'.
C26_NeverBackToPending ==
    [][ \A id \in 1..Len(appointments) :
            appointments[id].status # "pending" => appointments'[id].status # "pending" ]_vars

---------------------------------------------------------------------------
(* What an approval or a rejection changes.                                *)

\* The step is an approve or reject request that settles with its write done.
RequestDone == lastOp'.op = "settled" /\ lastOp'.ok

DecidedStatus(call) == IF call = "approve" THEN "scheduled" ELSE "cancelled"

\* C27: approving a pending request changes its stored status to 'scheduled',
\* rejecting it to 'cancelled'; nothing but the status of that one
\* appointment changes, and after the reload that follows the appointment is
\* not in the list of pending requests.
C27_DecisionWritesStatusOnly ==
    [][ RequestDone =>
          /\ appointments'[lastOp'.id] =
                Merge(appointments[lastOp'.id], [status |-> DecidedStatus(lastOp'.call)])
          /\ \A j \in 1..Len(appointments) :
                j # lastOp'.id => appointments'[j] = appointments[j]
          /\ Len(appointments') = Len(appointments)
          /\ UNCHANGED <<patients, blockedDates, reschedules>>
          /\ lastOp'.reloaded =>
                \A k \in 1..Len(pendingAppointments') :
                    pendingAppointments'[k].id # lastOp'.id ]_vars

\* A request was rejected and the list loaded again: it is stored as
\* cancelled and the list holds the other request only.
C27_Witness ==
    /\ OnDashboard("requests")
    /\ lastOp.op = "settled"
    /\ lastOp.call = "reject"
    /\ lastOp.reloaded
    /\ alert = RejectedMsg
    /\ appointments[lastOp.id].status = "cancelled"
    /\ Len(pendingAppointments) = 1
    /\ pendingAppointments[1].id # lastOp.id

---------------------------------------------------------------------------
(* The Add Appointment modal of the appointment list page.                 *)

\* The step is a submit of the list page's Add Appointment modal that the
\* modal did not refuse and after which the page shows no error.
ListAddDone == lastOp'.op = "listAdd" /\ alert' = NoMsg /\ listError' = ""

\* What CalendarPage.handleAddAppointment stores for the same form.
CalendarWouldStore(formData) ==
    AddAll(appointments, AddRequests(zone, AddPayload(zone, formData)), 1)

\* C28: a submit of the Add Appointment modal opened from the appointment
\* list page stores the new appointment that the same submit from the
\* calendar page stores, and the list loaded afterwards contains it.
C28_ListAddStores ==
    [][ ListAddDone =>
          /\ appointments' = CalendarWouldStore(lastOp'.formData)
          /\ Len(appointments') = Len(appointments) + 1
          /\ \E k \in 1..Len(listAppointments') :
                listAppointments'[k].id = Len(appointments') ]_vars

----------------------------------------------------------------------------
(* Signing in and out.  authUser is the provider's auth.currentUser; user   *)
(* is what its onAuthStateChanged listener last handed to useAuth in App.   *)

LoginFailedMessages == { "Invalid email or password. Please try again.",
                         "Too many failed attempts. Please try again later.",
                         "Login failed. Please check your credentials." }

AuthFrame ==
    UNCHANGED <<zone, storeVars, appBlocked, step, contactInfo, showPhoneError,
                showEmailError, roster, details, loading, pending, blockedLoad,
                page, calAppointments, calPatients, calBlocked, listAppointments,
                listPatients, listError, reportVars, requestVars, calendarVars, alert>>

\* SelectionPage.handleLogin with a rejected sign-in: login returns
\* success false, an error text is set in the modal and nothing else happens.
LoginFails ==
    /\ view = "selection"
    /\ \E error \in LoginFailedMessages :
         lastOp' = [op |-> "loginFailed", error |-> error]
    /\ AuthFrame
    /\ UNCHANGED <<view, authVars>>

\* SelectionPage.handleLogin with an accepted sign-in of the user the provider
\* already reports: the listener is not called again, App's user is the same,
\* the effect on [user] does not run and handleRoleSelect('staff') returns.
LoginWhileReported ==
    /\ view = "selection"
    /\ user # NoUser
    /\ ~signOutPending
    /\ authUser' = StaffUser
    /\ lastOp' = [op |-> "loginRepeated"]
    /\ AuthFrame
    /\ UNCHANGED <<view, user, signOutPending>>

\* A logout that starts signOut and leaves the view alone.
handleLogout_keepsView ==
    /\ DashboardDisplayed
    /\ signOutPending' = TRUE
    /\ lastOp' = [op |-> "logout"]
    /\ AuthFrame
    /\ UNCHANGED <<view, authUser, user>>

\* StaffDashboard.handleLogout: logout() starts signOut and is not awaited,
\* onLogout() sets the view to the selection page.
handleLogout ==
    /\ DashboardDisplayed
    /\ signOutPending' = TRUE
    /\ view' = "selection"
    /\ lastOp' = [op |-> "logout"]
    /\ AuthFrame
    /\ UNCHANGED <<authUser, user>>

\* signOut(auth) settles: the provider has no current user any more, or the
\* call is rejected and the user stays.
SignOutSettles ==
    /\ signOutPending
    /\ signOutPending' = FALSE
    /\ \E ok \in BOOLEAN :
         /\ authUser' = IF ok THEN NoUser ELSE authUser
         /\ lastOp' = [op |-> "signOutSettled", ok |-> ok]
    /\ AuthFrame
    /\ UNCHANGED <<view, user>>

\* The session ends outside this page (a sign-out in another tab of the same
\* browser): the provider drops its current user.
SessionEnds ==
    /\ authUser # NoUser
    /\ ~signOutPending
    /\ authUser' = NoUser
    /\ lastOp' = [op |-> "sessionEnded"]
    /\ AuthFrame
    /\ UNCHANGED <<view, user, signOutPending>>

\* The onAuthStateChanged listener of useAuth is called with the provider's
\* user: setUser(user); App's effect on [user] sets the dashboard view when
\* there is a user and does nothing when there is none.
AuthStateChanged ==
    /\ user # authUser
    /\ user' = authUser
    /\ view' = IF user' # NoUser THEN "staff-dashboard" ELSE view
    /\ lastOp' = [op |-> "authStateChanged"]
    /\ AuthFrame
    /\ UNCHANGED <<authUser, signOutPending>>

NextAuth ==
    \/ StaffLogin
    \/ SelectPage
    \/ LoginFails
    \/ LoginWhileReported
    \/ handleLogout
    \/ SignOutSettles
    \/ SessionEnds
    \/ AuthStateChanged

SpecAuth == InitStaff /\ [][NextAuth]_vars

----------------------------------------------------------------------------
(* The emergency modal confirmed after the session has ended.               *)

NextEmergencyAuth ==
    \/ StaffLogin
    \/ SessionEnds
    \/ AuthStateChanged
    \/ EmergencyReschedule({TRUE})

SpecEmergencyAuth == InitEmergency /\ [][NextEmergencyAuth]_vars

EmergencySubmitted == lastOp'.op \in {"emergency", "emergencyRefused"}

\* C30: an emergency reschedule confirmed while the provider has no current
\* user stores nothing: no audit record, no batch of blocked dates and no
\* change to any appointment.
C30_SignedOutWritesNothing ==
    [][ (EmergencySubmitted /\ authUser = NoUser)
          => /\ reschedules' = reschedules
             /\ blockedDates' = blockedDates
             /\ appointments' = appointments
             /\ patients' = patients ]_vars

\* The modal was confirmed with no current user and the handler refused.
C30_Witness ==
    /\ lastOp.op = "emergencyRefused"
    /\ authUser = NoUser
    /\ DashboardDisplayed
    /\ alert = LoginRequiredMsg
    /\ reschedules = <<>>
    /\ blockedDates = <<>>

====
